---- MODULE Spec2Model ----
(***************************************************************************)
(* A model of the QuantumQA retrieval / grounded-generation pipeline:      *)
(*   backend/rag.py                RAGEngine                               *)
(*   backend/ingest.py             DocumentIngestion                       *)
(*   backend/script_generation.py  SeleniumScriptGenerator                 *)
(*   app.py                        the Streamlit session around them       *)
(*                                                                         *)
(* Text is modelled as a sequence of tokens, a JSON value as a record of   *)
(* one fixed shape (JsonValue), a Python exception as a "raised" flag with *)
(* the exception's name.                                                   *)
(***************************************************************************)
EXTENDS Integers, Sequences, FiniteSets, TLC

VARIABLES
    gen,    \* one call of RAGEngine.generate_test_cases: inputs, locals, outcome
    parse,  \* one call of DocumentIngestion.parse_document
    ing,    \* one DocumentIngestion instance, its collection and its last call
    scr,    \* one script-synthesis run of render_phase_3
    kb,     \* the persistent store ./db and the last operation on it
    helper, \* one call of a stateless helper: its argument and its result
    session \* st.session_state of one browser session, and whether ./db exists

vars == <<gen, parse, ing, scr, kb, helper, session>>

Range(s) == {s[i] : i \in DOMAIN s}

(***************************************************************************)
(* Bounds of the model.                                                    *)
(***************************************************************************)
MaxCands == 2        \* candidate records in one backend response
MaxRetrieved == 1    \* chunks handed to one generate_test_cases call
MaxPieces == 2       \* chunks the splitter cuts one document into
MaxFiles == 3        \* files one ingestion instance is handed, over all calls
MaxSelected == 3     \* test cases selected for one script-synthesis run
MaxOps == 3          \* operations on the store in one behaviour
MaxUploads == 2      \* files handed to the store in one behaviour
MaxTopK == 2         \* the top_k a caller of retrieve_context asks for
MaxDepth == 2        \* containers nested in a JSON document
MaxElements == 2     \* elements of one HTML page
MaxWords == 4        \* words of one text handed to the splitter
MaxClicks == 5       \* buttons and checkboxes clicked in one session

(***************************************************************************)
(* JSON values, as json.loads builds them.                                 *)
(*   kind        obj | arr | str | num | bool | null                       *)
(*   keys        an object's keys, in insertion order                      *)
(*   text        a string's words (a field name is one word)               *)
(*   items       an array's elements                                       *)
(*   test_cases, testCases   the value under that key: <<>> or <<v>>       *)
(*   Test_ID, Feature, Test_Scenario, Expected_Result, Grounded_In         *)
(*               the values under those keys ("" or <<>> when absent)      *)
(***************************************************************************)
JsonValue(kind, keys, text, items) ==
    [kind |-> kind, keys |-> keys, text |-> text, items |-> items,
     test_cases |-> <<>>, testCases |-> <<>>,
     Test_ID |-> "", Feature |-> "", Test_Scenario |-> <<>>,
     Expected_Result |-> "", Grounded_In |-> <<>>]

JsonNum == JsonValue("num", <<>>, <<>>, <<>>)
JsonNull == JsonValue("null", <<>>, <<>>, <<>>)
JsonBool == JsonValue("bool", <<>>, <<>>, <<>>)
JsonStr(words) == JsonValue("str", <<>>, words, <<>>)
JsonArr(items) == JsonValue("arr", <<>>, <<>>, items)
JsonObj(keys) == JsonValue("obj", keys, <<>>, <<>>)

\* rag.py:166
required_fields ==
    <<"Test_ID", "Feature", "Test_Scenario", "Expected_Result", "Grounded_In">>

\* A test-case object as the backend is told to write it (rag.py:88-98).
TestCaseObj(id, keys) ==
    [JsonObj(keys) EXCEPT
        !.Test_ID = id,
        !.Feature = IF "Feature" \in Range(keys) THEN "Checkout" ELSE "",
        !.Test_Scenario =
            IF "Test_Scenario" \in Range(keys) THEN <<"Apply code">> ELSE <<>>,
        !.Expected_Result =
            IF "Expected_Result" \in Range(keys) THEN "Discount applied" ELSE "",
        !.Grounded_In =
            IF "Grounded_In" \in Range(keys) THEN <<"product_specs.md">> ELSE <<>>]

TcA == TestCaseObj("TC-001", required_fields \o <<"Steps">>)
TcB == TestCaseObj("TC-002", required_fields)
TcNoGrounded ==
    TestCaseObj("TC-003",
                <<"Test_ID", "Feature", "Test_Scenario", "Expected_Result">>)
\* The three backticks of a code fence, as a word of a string.
FenceWord == "<fence>"

\* A test case whose scenario quotes a code fence.
TcFence ==
    [TestCaseObj("TC-005", required_fields) EXCEPT
        !.Test_Scenario = <<"Type", FenceWord, "as the code">>]
\* A string that happens to quote every field name.
StrAllNames == JsonStr(required_fields)
StrPlain == JsonStr(<<"none">>)

\* The candidate records a response may hold.
Candidates == {TcA, TcB, TcNoGrounded, JsonNum, StrAllNames}

CandidateLists == UNION {[1..n -> Candidates] : n \in 0..MaxCands}

\* An object that wraps its records under a key.
Wrapped(keys, tc, tC) ==
    [JsonObj(keys) EXCEPT !.test_cases = tc, !.testCases = tC]

InnerValues ==
    {JsonArr(l) : l \in CandidateLists}
        \cup {JsonNum, JsonNull, JsonObj(<<"Test_ID", "Feature">>)}

\* The documents a response may hold.
Documents ==
    {JsonArr(l) : l \in CandidateLists}
        \cup {Wrapped(<<"test_cases">>, <<v>>, <<>>) : v \in InnerValues}
        \cup {Wrapped(<<"count", "testCases">>, <<>>, <<v>>) : v \in InnerValues}
        \cup {Wrapped(<<"testCases", "test_cases">>,
                      <<JsonArr(<<TcA>>)>>, <<JsonArr(<<TcB>>)>>),
              Wrapped(<<"test_cases", "testCases">>,
                      <<JsonArr(<<>>)>>, <<JsonArr(<<TcA, TcB>>)>>)}
        \cup {TcA, TcNoGrounded, JsonObj(<<>>), JsonArr(<<TcFence>>)}
        \cup {JsonNum, JsonNull, JsonBool, StrPlain, StrAllNames}

(***************************************************************************)
(* The backend's response text: a sequence of segments.                    *)
(*   fence_json  the characters ```json                                    *)
(*   fence       the characters ```                                        *)
(*   ws          whitespace                                                *)
(*   other       text that is not JSON ("Here are your tests:", "json")    *)
(*   doc         the text of one complete JSON document, doc = <<v>>       *)
(*   deep        a JSON text nested deeper than the parser's recursion     *)
(*               limit                                                     *)
(***************************************************************************)
Seg(s) == [seg |-> s, doc |-> <<>>]
DocSeg(v) == [seg |-> "doc", doc |-> <<v>>]

Prefixes ==
    {<<>>, <<Seg("fence_json")>>, <<Seg("fence")>>, <<Seg("ws")>>,
     <<Seg("other")>>, <<Seg("fence_json"), Seg("ws")>>,
     <<Seg("ws"), Seg("fence_json")>>}

Suffixes ==
    {<<>>, <<Seg("fence")>>, <<Seg("ws")>>, <<Seg("ws"), Seg("fence")>>,
     <<Seg("other")>>}

Payloads ==
    {<<DocSeg(v)>> : v \in Documents} \cup {<<>>, <<Seg("deep")>>}

ResponseTexts ==
    {p \o d \o s : p \in Prefixes, d \in Payloads, s \in Suffixes}

\* What model.generate_content does: it raises, or it returns a text.
BackendErrors == {"429 quota exceeded", "API key not valid"}

BackendBehaviours ==
    {[fails |-> TRUE, error |-> e, text |-> <<>>] : e \in BackendErrors}
        \cup {[fails |-> FALSE, error |-> "", text |-> t] : t \in ResponseTexts}

(***************************************************************************)
(* str.replace, str.strip and json.loads on segment sequences.             *)
(***************************************************************************)
IsWs(s) == s.seg = "ws"

RECURSIVE LStrip(_)
LStrip(t) == IF t # <<>> /\ IsWs(Head(t)) THEN LStrip(Tail(t)) ELSE t

RECURSIVE RStrip(_)
RStrip(t) ==
    IF t # <<>> /\ IsWs(t[Len(t)]) THEN RStrip(SubSeq(t, 1, Len(t) - 1)) ELSE t

\* str.strip()
Strip(t) == RStrip(LStrip(t))

\* content.replace("```json", "")
ReplaceFenceJson(t) == SelectSeq(t, LAMBDA s : s.seg # "fence_json")

\* a document's text without the ``` inside its strings
RECURSIVE WithoutFences(_)
WithoutFences(v) ==
    [v EXCEPT
        !.text = SelectSeq(@, LAMBDA w : w # FenceWord),
        !.Test_Scenario = SelectSeq(@, LAMBDA w : w # FenceWord),
        !.items = [i \in DOMAIN @ |-> WithoutFences(@[i])],
        !.test_cases = [i \in DOMAIN @ |-> WithoutFences(@[i])],
        !.testCases = [i \in DOMAIN @ |-> WithoutFences(@[i])]]

\* content.replace("```", ""): every ``` goes, those inside the document's
\* strings too, so ```json leaves "json"
ReplaceFence(t) ==
    LET kept == SelectSeq(t, LAMBDA s : s.seg # "fence")
    IN [i \in DOMAIN kept |->
            IF kept[i].seg = "fence_json" THEN Seg("other")
            ELSE IF kept[i].seg = "doc"
            THEN DocSeg(WithoutFences(kept[i].doc[1]))
            ELSE kept[i]]

\* rag.py:124-128
clean_markdown(content) ==
    IF content # <<>> /\ Head(content).seg = "fence_json"
    THEN Strip(ReplaceFence(ReplaceFenceJson(content)))
    ELSE IF content # <<>> /\ Head(content).seg \in {"fence"}
         THEN Strip(ReplaceFence(content))
         ELSE content

\* json.loads: surrounding whitespace is skipped, then exactly one document.
json_loads(content) ==
    LET t == Strip(content)
        none == JsonNull
    IN IF t = <<>> \/ Head(t).seg \notin {"doc", "deep"}
       THEN [ok |-> FALSE, exc |-> "JSONDecodeError",
             msg |-> "Expecting value", value |-> none]
       ELSE IF Head(t).seg = "deep"
       THEN [ok |-> FALSE, exc |-> "RecursionError",
             msg |-> "maximum recursion depth exceeded", value |-> none]
       ELSE IF Len(t) > 1
       THEN [ok |-> FALSE, exc |-> "JSONDecodeError",
             msg |-> "Extra data", value |-> none]
       ELSE [ok |-> TRUE, exc |-> "", msg |-> "", value |-> Head(t).doc[1]]

(***************************************************************************)
(* RAGEngine                                                               *)
(***************************************************************************)
\* A retrieved chunk, as retrieve_context builds it (rag.py:44-48).
Chunk(text, source, doc_type, idx, distance) ==
    [text |-> text,
     metadata |-> [source_document |-> source, doc_type |-> doc_type,
                   chunk_index |-> idx],
     distance |-> distance]

SampleChunks ==
    {Chunk("Discount code SAVE15 gives 15% off", "product_specs.md", "spec", 0, 1),
     Chunk("Pay Now button is green", "ui_ux_guide.txt", "ui_ux", 1, 2)}

ChunkLists == UNION {[1..n -> SampleChunks] : n \in 0..MaxRetrieved}

\* rag.py:53-64 with enumerate(chunks) counting from 0
compile_context_from_zero(chunks) ==
    [i \in 1..(2 * Len(chunks) - (IF chunks = <<>> THEN 0 ELSE 1)) |->
        IF i % 2 = 0
        THEN <<"\n---\n">>
        ELSE LET k == (i + 1) \div 2
             IN <<"Source", k - 1, chunks[k].metadata.source_document,
                  chunks[k].metadata.doc_type, chunks[k].text>>]

\* rag.py:53-64: one block per chunk, in the order given, joined by "\n---\n"
compile_context(chunks) ==
    [i \in 1..(2 * Len(chunks) - (IF chunks = <<>> THEN 0 ELSE 1)) |->
        IF i % 2 = 0
        THEN <<"\n---\n">>
        ELSE LET k == (i + 1) \div 2
             IN <<"Source", k, chunks[k].metadata.source_document,
                  chunks[k].metadata.doc_type, chunks[k].text>>]

\* Python's `field in x`: a key of a dict, an element of a list, a substring
\* of a str; a TypeError for a number, a boolean or None.
SupportsIn(x) == x.kind \in {"obj", "arr", "str"}

FieldIn(field, x) ==
    CASE x.kind = "obj" -> field \in Range(x.keys)
      [] x.kind = "str" -> field \in Range(x.text)
      [] x.kind = "arr" -> \E i \in DOMAIN x.items : x.items[i] = JsonStr(<<field>>)
      [] OTHER -> FALSE

\* rag.py:164-167
validate_test_case(test_case) ==
    IF SupportsIn(test_case)
    THEN [raised |-> FALSE,
          valid |-> \A i \in DOMAIN required_fields :
                        FieldIn(required_fields[i], test_case)]
    ELSE [raised |-> TRUE, valid |-> FALSE]

\* Python's iteration: a list's elements, a dict's keys, a str's characters
\* (no character holds a field name); a TypeError for the other kinds.
Iterate(x) ==
    CASE x.kind = "arr" -> [raised |-> FALSE, items |-> x.items]
      [] x.kind = "obj" ->
            [raised |-> FALSE,
             items |-> [i \in DOMAIN x.keys |-> JsonStr(<<x.keys[i]>>)]]
      [] x.kind = "str" ->
            [raised |-> FALSE, items |-> [i \in DOMAIN x.text |-> JsonStr(<<>>)]]
      [] OTHER -> [raised |-> TRUE, items |-> <<>>]

\* select_test_cases without the testCases spelling
select_test_cases_snake_only(parsed) ==
    IF parsed.kind = "obj" /\ "test_cases" \in Range(parsed.keys)
    THEN parsed.test_cases[1]
    ELSE IF parsed.kind = "arr"
    THEN parsed
    ELSE IF parsed.kind = "obj" THEN JsonArr(<<parsed>>) ELSE JsonArr(<<>>)

\* rag.py:132-139: the candidate records of a parsed response
select_test_cases(parsed) ==
    IF parsed.kind = "obj" /\ "test_cases" \in Range(parsed.keys)
    THEN parsed.test_cases[1]
    ELSE IF parsed.kind = "obj" /\ "testCases" \in Range(parsed.keys)
    THEN parsed.testCases[1]
    ELSE IF parsed.kind = "arr"
    THEN parsed
    ELSE IF parsed.kind = "obj" THEN JsonArr(<<parsed>>) ELSE JsonArr(<<>>)

\* rag.py:140-143: the validation loop; a TypeError ends it
RECURSIVE validate_loop(_, _)
validate_loop(items, validated_cases) ==
    IF items = <<>>
    THEN [raised |-> FALSE, value |-> validated_cases]
    ELSE LET v == validate_test_case(Head(items))
         IN IF v.raised
            THEN [raised |-> TRUE, value |-> <<>>]
            ELSE validate_loop(Tail(items),
                               IF v.valid
                               THEN Append(validated_cases, Head(items))
                               ELSE validated_cases)

\* rag.py:146-153
ParseErrorCase(msg) ==
    [JsonObj(required_fields \o <<"Steps">>) EXCEPT
        !.Test_ID = "ERROR",
        !.Feature = "Parse Error",
        !.Test_Scenario = <<"Failed to parse LLM response: ", msg>>,
        !.Expected_Result = "Valid JSON",
        !.Grounded_In = <<"system_error">>]

\* rag.py:155-162
GenerationErrorCase(msg) ==
    [JsonObj(required_fields \o <<"Steps">>) EXCEPT
        !.Test_ID = "ERROR",
        !.Feature = "Generation Error",
        !.Test_Scenario = <<"Failed to generate test cases: ", msg>>,
        !.Expected_Result = "Successful generation",
        !.Grounded_In = <<"system_error">>]

Returned(value) == [raised |-> FALSE, exc |-> "", value |-> value]
Raised(exc) == [raised |-> TRUE, exc |-> exc, value |-> <<>>]

\* rag.py:145: except json.JSONDecodeError as je
JsonDecodeHandlerDropsAll(msg) == Returned(<<>>)
JsonDecodeHandler(msg) == Returned(<<ParseErrorCase(msg)>>)

\* rag.py:154: except Exception as e
OuterHandlerReraises(exc, msg) == Raised(exc)
OuterHandler(exc, msg) == Returned(<<GenerationErrorCase(msg)>>)

\* model.generate_content with a second attempt after a failure
generate_content_retrying(backend) ==
    [fails |-> backend.fails, error |-> backend.error, text |-> backend.text,
     calls |-> IF backend.fails THEN 2 ELSE 1]

\* model.generate_content (rag.py:117-121, script_generation.py:119-123):
\* what the backend does, and the number of requests made of it
generate_content(backend) ==
    [fails |-> backend.fails, error |-> backend.error, text |-> backend.text,
     calls |-> 1]

\* rag.py:66-162. The locals are kept beside the outcome.
generate_test_cases(user_query, retrieved_chunks, backend) ==
    LET context == compile_context(retrieved_chunks)
        response == generate_content(backend)
        content == IF backend.fails THEN <<>> ELSE clean_markdown(backend.text)
        loaded == json_loads(content)
        test_cases == IF loaded.ok THEN select_test_cases(loaded.value)
                      ELSE JsonArr(<<>>)
        iter == Iterate(test_cases)
        loop == validate_loop(iter.items, <<>>)
        out ==
            IF backend.fails THEN OuterHandler("Exception", backend.error)
            ELSE IF ~loaded.ok
            THEN IF loaded.exc = "JSONDecodeError"
                 THEN JsonDecodeHandler(loaded.msg)
                 ELSE OuterHandler(loaded.exc, loaded.msg)
            ELSE IF iter.raised \/ loop.raised
            THEN OuterHandler("TypeError", "argument is not iterable")
            ELSE Returned(loop.value)
    IN [context |-> context,
        called |-> TRUE,
        backend_calls |-> response.calls,
        content |-> content,
        parsed |-> IF ~backend.fails /\ loaded.ok THEN <<loaded.value>> ELSE <<>>,
        test_cases |-> IF ~backend.fails /\ loaded.ok THEN <<test_cases>> ELSE <<>>,
        out |-> out]

(***************************************************************************)
(* DocumentIngestion (backend/ingest.py).                                  *)
(*                                                                         *)
(* A filename is a sequence of characters.  A file's bytes are described   *)
(* by what the parsers make of them:                                       *)
(*   utf8        the bytes decode as UTF-8                                 *)
(*   wellformed  the decoded text is a JSON document (.json), the bytes    *)
(*               are a PDF file (.pdf)                                     *)
(*   pieces      the number of chunks the splitter cuts the text into      *)
(***************************************************************************)
Lower(c) ==
    CASE c = "A" -> "a" [] c = "B" -> "b" [] c = "C" -> "c" [] c = "D" -> "d" []
      c = "E" -> "e" [] c = "F" -> "f" [] c = "G" -> "g" [] c = "H" -> "h" []
      c = "I" -> "i" [] c = "J" -> "j" [] c = "K" -> "k" [] c = "L" -> "l" []
      c = "M" -> "m" [] c = "N" -> "n" [] c = "O" -> "o" [] c = "P" -> "p" []
      c = "Q" -> "q" [] c = "R" -> "r" [] c = "S" -> "s" [] c = "T" -> "t" []
      c = "U" -> "u" [] c = "V" -> "v" [] c = "W" -> "w" [] c = "X" -> "x" []
      c = "Y" -> "y" [] c = "Z" -> "z"
      [] OTHER -> c

\* str.lower()
lower(name) == [i \in DOMAIN name |-> Lower(name[i])]

Dots(name) == {i \in DOMAIN name : name[i] = "."}
LastDot(name) == CHOOSE i \in Dots(name) : \A j \in Dots(name) : j <= i

\* pathlib: a name has a suffix when its last dot is neither its first nor
\* its last character
HasSuffix(name) ==
    Dots(name) # {} /\ LastDot(name) > 1 /\ LastDot(name) < Len(name)

\* Path(filename).suffix
suffix(name) ==
    IF HasSuffix(name) THEN SubSeq(name, LastDot(name), Len(name)) ELSE <<>>

\* Path(filename).stem
stem(name) ==
    IF HasSuffix(name) THEN SubSeq(name, 1, LastDot(name) - 1) ELSE name

\* `sub in name` for a two-character sub
Contains2(name, c1, c2) ==
    \E i \in 1..(Len(name) - 1) : name[i] = c1 /\ name[i + 1] = c2

Filenames ==
    {<<"a", ".", "t", "x", "t">>,
     <<"a", "_", "1", ".", "t", "x", "t">>,
     <<"a", ".", "j", "s", "o", "n">>,
     <<"U", "X", ".", "T", "X", "T">>,
     <<"g", "u", "i", "d", "e", ".", "t", "x", "t">>,
     <<"p", ".", "p", "d", "f">>,
     <<"x", ".", "h", "t", "m", "l">>,
     <<"y", ".", "h", "t", "m">>,
     <<"n", ".", "m", "d">>,
     <<"d", ".", "b", "i", "n">>,
     <<".", "t", "x", "t">>}

Content(utf8, wellformed, pieces) ==
    [utf8 |-> utf8, wellformed |-> wellformed, pieces |-> pieces]

Contents ==
    {Content(u, w, n) : u \in BOOLEAN, w \in BOOLEAN, n \in 0..MaxPieces}

Text(form, pieces) == [form |-> form, pieces |-> pieces]

Parsed(text, doc_type) ==
    [raised |-> FALSE, exc |-> "", text |-> text, doc_type |-> doc_type]
ParseRaised(exc) ==
    [raised |-> TRUE, exc |-> exc, text |-> Text("", 0), doc_type |-> ""]

\* file_content.decode('utf-8'), then what the branch does with the text
decode_strict_lossy(content, form, doc_type) ==
    Parsed(Text(IF content.utf8 THEN form ELSE "lossy", content.pieces), doc_type)
decode_strict(content, form, doc_type) ==
    IF content.utf8
    THEN Parsed(Text(form, content.pieces), doc_type)
    ELSE ParseRaised("UnicodeDecodeError")

\* ingest.py:72-81: fitz.open raises on bytes that are no PDF
parse_pdf(content) ==
    IF content.wellformed
    THEN Parsed(Text("pdf_text", content.pieces), "spec")
    ELSE ParseRaised("FileDataError")

\* ingest.py:89-95: malformed JSON comes back unchanged
parse_json_form(content) == IF content.wellformed THEN "flattened" ELSE "raw"

Ext(s) == [i \in 1..Len(s) |-> s[i]]

\* ingest.py:52-70 with 'ui' and 'ux' looked for in the filename as given
parse_document_case_sensitive(content, filename) ==
    LET ext == lower(suffix(filename))
    IN CASE ext = <<".", "p", "d", "f">> -> parse_pdf(content)
         [] ext = <<".", "m", "d">> -> decode_strict(content, "md_text", "spec")
         [] ext = <<".", "t", "x", "t">> ->
                decode_strict(content, "decoded",
                    IF Contains2(filename, "u", "i")
                        \/ Contains2(filename, "u", "x")
                    THEN "ui_ux" ELSE "spec")
         [] ext = <<".", "j", "s", "o", "n">> ->
                decode_strict(content, parse_json_form(content), "api")
         [] ext = <<".", "h", "t", "m", "l">> \/ ext = <<".", "h", "t", "m">> ->
                decode_strict(content, "html_text", "html_dom")
         [] OTHER -> decode_strict_lossy(content, "decoded", "spec")

\* ingest.py:52-70
parse_document(content, filename) ==
    LET ext == lower(suffix(filename))
    IN CASE ext = <<".", "p", "d", "f">> -> parse_pdf(content)
         [] ext = <<".", "m", "d">> -> decode_strict(content, "md_text", "spec")
         [] ext = <<".", "t", "x", "t">> ->
                decode_strict(content, "decoded",
                    IF Contains2(lower(filename), "u", "i")
                        \/ Contains2(lower(filename), "u", "x")
                    THEN "ui_ux" ELSE "spec")
         [] ext = <<".", "j", "s", "o", "n">> ->
                decode_strict(content, parse_json_form(content), "api")
         [] ext = <<".", "h", "t", "m", "l">> \/ ext = <<".", "h", "t", "m">> ->
                decode_strict(content, "html_text", "html_dom")
         [] OTHER -> decode_strict_lossy(content, "decoded", "spec")

\* str(int): the decimal digits
Digit(d) ==
    CASE d = 0 -> "0" [] d = 1 -> "1" [] d = 2 -> "2" [] d = 3 -> "3"
      [] d = 4 -> "4" [] d = 5 -> "5" [] d = 6 -> "6" [] d = 7 -> "7"
      [] d = 8 -> "8" [] OTHER -> "9"

RECURSIVE Digits(_)
Digits(n) == IF n < 10 THEN <<Digit(n)>> ELSE Digits(n \div 10) \o <<Digit(n % 10)>>

\* ingest.py:141 with the chunk's index in place of the running counter
chunk_id_by_index(source_document, chunk_counter, idx) ==
    stem(source_document) \o <<"_">> \o Digits(idx)

\* ingest.py:141
chunk_id(source_document, chunk_counter, idx) ==
    stem(source_document) \o <<"_">> \o Digits(chunk_counter)

\* ingest.py:130-153 with chunk_index taken from the running counter
chunk_text_running_index(chunk_counter, text, source_document, doc_type) ==
    [k \in 1..text.pieces |->
        [chunk_id |-> chunk_id(source_document, chunk_counter + k, k - 1),
         counter |-> chunk_counter + k,
         text |-> <<text.form, source_document, k - 1>>,
         source_document |-> source_document,
         doc_type |-> doc_type,
         chunk_index |-> chunk_counter + k - 1]]

\* ingest.py:130-153: the chunks of one text; the k-th takes counter + k
chunk_text(chunk_counter, text, source_document, doc_type) ==
    [k \in 1..text.pieces |->
        [chunk_id |-> chunk_id(source_document, chunk_counter + k, k - 1),
         counter |-> chunk_counter + k,
         text |-> <<text.form, source_document, k - 1>>,
         source_document |-> source_document,
         doc_type |-> doc_type,
         chunk_index |-> k - 1]]

\* A collection entry (ingest.py:166-178)
Entry(chunk) ==
    [id |-> chunk.chunk_id,
     text |-> chunk.text,
     metadata |-> [source_document |-> chunk.source_document,
                   doc_type |-> chunk.doc_type,
                   chunk_index |-> chunk.chunk_index]]

ChunkIds(chunks) == {chunks[i].chunk_id : i \in DOMAIN chunks}
EntryIds(entries) == {entries[i].id : i \in DOMAIN entries}

\* collection.add with an entry of the same id replaced (an upsert)
collection_upsert(entries, chunks, on_duplicate) ==
    LET kept == SelectSeq(entries, LAMBDA e : e.id \notin ChunkIds(chunks))
    IN [raised |-> FALSE, exc |-> "",
        entries |-> kept \o [i \in DOMAIN chunks |-> Entry(chunks[i])]]

\* collection.add: the collection is the sequence of its entries in
\* insertion order.  Two equal ids in one call are refused; an id the
\* collection holds already is refused (the whole call raises) or skipped,
\* depending on the store's version; an entry the collection holds is never
\* replaced.
collection_add(entries, chunks, on_duplicate) ==
    LET dup == ChunkIds(chunks) \cap EntryIds(entries)
        new == SelectSeq(chunks, LAMBDA c : c.chunk_id \notin EntryIds(entries))
    IN IF Cardinality(ChunkIds(chunks)) < Len(chunks)
          \/ (dup # {} /\ on_duplicate = "raise")
       THEN [raised |-> TRUE, exc |-> "DuplicateIDError", entries |-> entries]
       ELSE [raised |-> FALSE, exc |-> "",
             entries |-> entries \o [i \in DOMAIN new |-> Entry(new[i])]]

\* ingest.py:155-180 without the guard of lines 160-161
embed_and_store_unguarded(entries, chunks, fault, on_duplicate) ==
    IF fault = "embed"
    THEN [raised |-> TRUE, exc |-> "RuntimeError", entries |-> entries, stored |-> 0]
    ELSE LET r == collection_add(entries, chunks, on_duplicate)
         IN [raised |-> r.raised, exc |-> r.exc, entries |-> r.entries,
             stored |-> IF r.raised THEN 0 ELSE Len(chunks)]

\* ingest.py:155-180. fault = "embed": the embedding call raises.
embed_and_store(entries, chunks, fault, on_duplicate) ==
    IF chunks = <<>>
    THEN [raised |-> FALSE, exc |-> "", entries |-> entries, stored |-> 0]
    ELSE IF fault = "embed"
    THEN [raised |-> TRUE, exc |-> "RuntimeError", entries |-> entries, stored |-> 0]
    ELSE LET r == collection_add(entries, chunks, on_duplicate)
         IN [raised |-> r.raised, exc |-> r.exc, entries |-> r.entries,
             stored |-> IF r.raised THEN 0 ELSE Len(chunks)]

\* The entries of files_processed (ingest.py:205-209 and 214-217)
Processed(filename, doc_type, chunks) ==
    [keys |-> {"filename", "doc_type", "chunks"}, filename |-> filename,
     doc_type |-> doc_type, chunks |-> chunks, error |-> ""]
Failed(filename, error) ==
    [keys |-> {"filename", "error"}, filename |-> filename,
     doc_type |-> "", chunks |-> 0, error |-> error]

\* ingest.py:188-193
EmptyStats ==
    [total_files |-> 0, total_chunks |-> 0, files_processed |-> <<>>,
     doc_types |-> <<>>]

\* stats['doc_types'][doc_type] = stats['doc_types'].get(doc_type, 0) + 1
\* (the dict is a sequence of <<key, count>> pairs in insertion order)
CountDocType(doc_types, doc_type) ==
    IF \E i \in DOMAIN doc_types : doc_types[i][1] = doc_type
    THEN [i \in DOMAIN doc_types |->
            IF doc_types[i][1] = doc_type
            THEN <<doc_type, doc_types[i][2] + 1>> ELSE doc_types[i]]
    ELSE Append(doc_types, <<doc_type, 1>>)

\* The state one pass of the loop works on.
IngestState(chunk_counter, entries, issued, stats) ==
    [chunk_counter |-> chunk_counter, entries |-> entries, issued |-> issued,
     stats |-> stats, raised |-> FALSE, chunk_calls |-> <<>>]

\* One chunk_text call that returned: its arguments, the counter it found
\* and the chunks it returned.
ChunkCall(chunk_counter, source_document, doc_type, chunks) ==
    [chunk_counter |-> chunk_counter, source_document |-> source_document,
     doc_type |-> doc_type, chunks |-> chunks]

\* ingest.py:196-217: one file. f.fault = "split": the splitter raises.
ingest_one(st, f, on_duplicate) ==
    LET p == parse_document(f.content, f.filename)
        chunks == IF p.raised \/ f.fault = "split" THEN <<>>
                  ELSE chunk_text(st.chunk_counter, p.text, f.filename, p.doc_type)
        e == embed_and_store(st.entries, chunks, f.fault, on_duplicate)
        failure == IF p.raised THEN p.exc
                   ELSE IF f.fault = "split" THEN "split_text failed"
                   ELSE IF e.raised THEN e.exc ELSE ""
        stats == st.stats
    IN [st EXCEPT
          !.chunk_counter = @ + Len(chunks),
          !.issued = @ \o chunks,
          !.chunk_calls =
              IF p.raised \/ f.fault = "split" THEN @
              ELSE Append(@, ChunkCall(st.chunk_counter, f.filename,
                                       p.doc_type, chunks)),
          !.entries = e.entries,
          !.stats =
            IF failure # ""
            THEN [stats EXCEPT
                    !.files_processed = Append(@, Failed(f.filename, failure))]
            ELSE [total_files |-> stats.total_files + 1,
                  total_chunks |-> stats.total_chunks + e.stored,
                  files_processed |->
                      Append(stats.files_processed,
                             Processed(f.filename, p.doc_type, e.stored)),
                  doc_types |-> CountDocType(stats.doc_types, p.doc_type)]]

FileFails(st, f, on_duplicate) ==
    ingest_one(st, f, on_duplicate).stats.total_files = st.stats.total_files

\* the loop, leaving at the first file that fails
RECURSIVE ingest_loop_until_failure(_, _, _)
ingest_loop_until_failure(st, files, on_duplicate) ==
    IF files = <<>> THEN st
    ELSE IF FileFails(st, Head(files), on_duplicate)
    THEN ingest_one(st, Head(files), on_duplicate)
    ELSE ingest_loop_until_failure(ingest_one(st, Head(files), on_duplicate),
                                   Tail(files), on_duplicate)

\* ingest.py:195-217: the loop over uploaded_files
RECURSIVE ingest_loop(_, _, _)
ingest_loop(st, files, on_duplicate) ==
    IF files = <<>> THEN st
    ELSE ingest_loop(ingest_one(st, Head(files), on_duplicate),
                     Tail(files), on_duplicate)

\* ingest.py:182-219
ingest_documents(chunk_counter, entries, issued, uploaded_files, on_duplicate) ==
    ingest_loop(IngestState(chunk_counter, entries, issued, EmptyStats),
                uploaded_files, on_duplicate)

(***************************************************************************)
(* DocumentIngestion._flatten_json (ingest.py:97-117).  A parsed JSON      *)
(* value is a scalar, a dict (its members in input order) or a list; a     *)
(* text is the sequence of its lines.                                      *)
(***************************************************************************)
PyScalar(v) == [t |-> "scalar", v |-> v, kids |-> <<>>]
PyDict(members) == [t |-> "dict", v |-> "", kids |-> members]
PyList(items) ==
    [t |-> "list", v |-> "",
     kids |-> [i \in DOMAIN items |-> [key |-> "", value |-> items[i]]]]
Member(key, value) == [key |-> key, value |-> value]

IsContainer(data) == data.t \in {"dict", "list"}

\* str(value) of a scalar json.loads returned
str(data) ==
    CASE data.v = "true" -> "True"
      [] data.v = "null" -> "None"
      [] OTHER -> data.v

\* '\n'.join(lines), as the lines of the joined text: no line at all joins
\* to the empty text, which is one empty line where it is appended
JoinLines(lines) == IF lines = <<>> THEN <<"">> ELSE lines

RECURSIVE Concat(_)
Concat(seqs) == IF seqs = <<>> THEN <<>> ELSE Head(seqs) \o Concat(Tail(seqs))

\* ingest.py:97-117 with the line of a nested container's name left out
RECURSIVE flatten_json_leaves_only(_, _)
flatten_json_leaves_only(data, prefix) ==
    JoinLines(Concat(
        [i \in DOMAIN data.kids |->
            LET kid == data.kids[i]
                new_prefix ==
                    IF data.t = "dict"
                    THEN (IF prefix # "" THEN prefix \o "." \o kid.key
                          ELSE kid.key)
                    ELSE prefix \o "[" \o ToString(i - 1) \o "]"
            IN IF IsContainer(kid.value)
               THEN flatten_json_leaves_only(kid.value, new_prefix)
               ELSE <<new_prefix \o ": " \o str(kid.value)>>]))

\* ingest.py:97-117
RECURSIVE flatten_json(_, _)
flatten_json(data, prefix) ==
    IF ~IsContainer(data) THEN <<str(data)>>
    ELSE JoinLines(Concat(
        [i \in DOMAIN data.kids |->
            LET kid == data.kids[i]
                new_prefix ==
                    IF data.t = "dict"
                    THEN (IF prefix # "" THEN prefix \o "." \o kid.key
                          ELSE kid.key)
                    ELSE prefix \o "[" \o ToString(i - 1) \o "]"
            IN IF IsContainer(kid.value)
               THEN (IF data.t = "dict" THEN <<new_prefix \o ":">> ELSE <<>>)
                        \o flatten_json(kid.value, new_prefix)
               ELSE <<new_prefix \o ": " \o str(kid.value)>>]))

(***************************************************************************)
(* HTMLSelectorExtractor (backend/selectors.py).  A string is the sequence *)
(* of its characters; a page is the sequence of its elements in document   *)
(* order, as soup.find_all() gives them; an element's text is its          *)
(* get_text(strip=True).  An absent attribute is the empty string, an      *)
(* absent class the empty list.                                            *)
(***************************************************************************)
Element(tag, id, name, class, data_test, type, text) ==
    [tag |-> tag, id |-> id, name |-> name, class |-> class,
     data_test |-> data_test, type |-> type, text |-> text]

\* keyword in s
Contains(s, keyword) ==
    \E i \in 1..(Len(s) - Len(keyword) + 1) :
        SubSeq(s, i, i + Len(keyword) - 1) = keyword

\* any(keyword in s for keyword in keywords)
AnyIn(s, keywords) == \E k \in keywords : Contains(s, k)

\* ' '.join(words)
RECURSIVE JoinSpace(_)
JoinSpace(words) ==
    IF words = <<>> THEN <<>>
    ELSE IF Len(words) = 1 THEN words[1]
    ELSE words[1] \o <<" ">> \o JoinSpace(Tail(words))

\* selectors.py:49, 56, 64, 71
IdSelector(id) == <<"#">> \o id
NameSelector(name) == <<"[name='">> \o name \o <<"']">>
ClassSelector(cls) == <<".">> \o cls
DataTestSelector(v) == <<"[data-test='">> \o v \o <<"']">>

\* selectors.py:43-73 with the class selectors put first
ElementSelectorsClassesFirst(e) ==
    [i \in DOMAIN e.class |-> ClassSelector(e.class[i])]
        \o (IF e.id # <<>> THEN <<IdSelector(e.id)>> ELSE <<>>)
        \o (IF e.name # <<>> THEN <<NameSelector(e.name)>> ELSE <<>>)
        \o (IF e.data_test # <<>> THEN <<DataTestSelector(e.data_test)>>
            ELSE <<>>)

\* selectors.py:43-73: the selectors of one element, in the order id, name,
\* classes, data-test
ElementSelectors(e) ==
    (IF e.id # <<>> THEN <<IdSelector(e.id)>> ELSE <<>>)
        \o (IF e.name # <<>> THEN <<NameSelector(e.name)>> ELSE <<>>)
        \o [i \in DOMAIN e.class |-> ClassSelector(e.class[i])]
        \o (IF e.data_test # <<>> THEN <<DataTestSelector(e.data_test)>>
            ELSE <<>>)

\* selectors.py:43-53, 59
ElementInfo(e) ==
    [tag |-> e.tag, selectors |-> ElementSelectors(e), id |-> e.id,
     name |-> e.name]

\* selectors.py:102-121
CART_TEXT ==
    {<<"c", "a", "r", "t">>,
     <<"a", "d", "d", " ", "t", "o", " ", "c", "a", "r", "t">>,
     <<"q", "u", "a", "n", "t", "i", "t", "y">>}
CART_ATTR ==
    {<<"c", "a", "r", "t">>,
     <<"q", "t", "y">>,
     <<"q", "u", "a", "n", "t", "i", "t", "y">>,
     <<"t", "o", "t", "a", "l">>}
PAYMENT_TEXT ==
    {<<"p", "a", "y", "m", "e", "n", "t">>,
     <<"p", "a", "y">>,
     <<"c", "r", "e", "d", "i", "t">>,
     <<"p", "a", "y", "p", "a", "l">>}
PAYMENT_ATTR ==
    {<<"p", "a", "y", "m", "e", "n", "t">>,
     <<"p", "a", "y">>}
SHIPPING_TEXT ==
    {<<"s", "h", "i", "p", "p", "i", "n", "g">>,
     <<"s", "t", "a", "n", "d", "a", "r", "d">>,
     <<"e", "x", "p", "r", "e", "s", "s">>,
     <<"d", "e", "l", "i", "v", "e", "r", "y">>}
SHIPPING_ATTR ==
    {<<"s", "h", "i", "p", "p", "i", "n", "g">>,
     <<"d", "e", "l", "i", "v", "e", "r", "y">>}
DISCOUNT_TEXT ==
    {<<"d", "i", "s", "c", "o", "u", "n", "t">>,
     <<"c", "o", "u", "p", "o", "n">>,
     <<"p", "r", "o", "m", "o">>}
DISCOUNT_ATTR ==
    {<<"d", "i", "s", "c", "o", "u", "n", "t">>,
     <<"c", "o", "u", "p", "o", "n">>,
     <<"p", "r", "o", "m", "o">>,
     <<"c", "o", "d", "e">>}
VALIDATION_CLASS ==
    {<<"e", "r", "r", "o", "r">>,
     <<"i", "n", "v", "a", "l", "i", "d">>,
     <<"v", "a", "l", "i", "d", "a", "t", "i", "o", "n">>}

If(cond, info) == IF cond THEN <<info>> ELSE <<>>

NoBuckets ==
    [buttons |-> <<>>, inputs |-> <<>>, forms |-> <<>>, cart_elements |-> <<>>,
     payment_elements |-> <<>>, shipping_elements |-> <<>>,
     discount_elements |-> <<>>, validation_elements |-> <<>>]

IsButton(e) ==
    e.tag = "button" \/ e.type = <<"b", "u", "t", "t", "o", "n">>
        \/ e.type = <<"s", "u", "b", "m", "i", "t">>
IsInput(e) == e.tag \in {"input", "textarea", "select"}

\* selectors.py:82-123 as an if/elif chain: the first bucket that matches
categorize_semantic_exclusive(e, element_info) ==
    LET text_content == lower(e.text)
        attrs == lower(e.id) \o lower(e.name) \o lower(JoinSpace(e.class))
    IN IF IsButton(e) THEN [NoBuckets EXCEPT !.buttons = <<element_info>>]
       ELSE IF IsInput(e) THEN [NoBuckets EXCEPT !.inputs = <<element_info>>]
       ELSE IF e.tag = "form" THEN [NoBuckets EXCEPT !.forms = <<element_info>>]
       ELSE IF AnyIn(text_content, CART_TEXT) \/ AnyIn(attrs, CART_ATTR)
       THEN [NoBuckets EXCEPT !.cart_elements = <<element_info>>]
       ELSE IF AnyIn(text_content, PAYMENT_TEXT) \/ AnyIn(attrs, PAYMENT_ATTR)
       THEN [NoBuckets EXCEPT !.payment_elements = <<element_info>>]
       ELSE IF AnyIn(text_content, SHIPPING_TEXT) \/ AnyIn(attrs, SHIPPING_ATTR)
       THEN [NoBuckets EXCEPT !.shipping_elements = <<element_info>>]
       ELSE IF AnyIn(text_content, DISCOUNT_TEXT) \/ AnyIn(attrs, DISCOUNT_ATTR)
       THEN [NoBuckets EXCEPT !.discount_elements = <<element_info>>]
       ELSE IF AnyIn(lower(JoinSpace(e.class)), VALIDATION_CLASS)
       THEN [NoBuckets EXCEPT !.validation_elements = <<element_info>>]
       ELSE NoBuckets

\* selectors.py:82-123 with the two checks of a bucket joined by "or"
categorize_semantic_once(e, element_info) ==
    LET text_content == lower(e.text)
        element_class == lower(JoinSpace(e.class))
        attrs == lower(e.id) \o lower(e.name) \o element_class
    IN [buttons |-> If(IsButton(e), element_info),
        inputs |-> If(IsInput(e), element_info),
        forms |-> If(e.tag = "form", element_info),
        cart_elements |->
            If(AnyIn(text_content, CART_TEXT) \/ AnyIn(attrs, CART_ATTR),
               element_info),
        payment_elements |->
            If(AnyIn(text_content, PAYMENT_TEXT) \/ AnyIn(attrs, PAYMENT_ATTR),
               element_info),
        shipping_elements |->
            If(AnyIn(text_content, SHIPPING_TEXT)
                   \/ AnyIn(attrs, SHIPPING_ATTR),
               element_info),
        discount_elements |->
            If(AnyIn(text_content, DISCOUNT_TEXT)
                   \/ AnyIn(attrs, DISCOUNT_ATTR),
               element_info),
        validation_elements |->
            If(AnyIn(element_class, VALIDATION_CLASS), element_info)]

\* selectors.py:82-123: what one element appends to each bucket
categorize_semantic(e, element_info) ==
    LET text_content == lower(e.text)
        element_class == lower(JoinSpace(e.class))
        attrs == lower(e.id) \o lower(e.name) \o element_class
    IN [buttons |-> If(IsButton(e), element_info),
        inputs |-> If(IsInput(e), element_info),
        forms |-> If(e.tag = "form", element_info),
        cart_elements |->
            If(AnyIn(text_content, CART_TEXT), element_info)
                \o If(AnyIn(attrs, CART_ATTR), element_info),
        payment_elements |->
            If(AnyIn(text_content, PAYMENT_TEXT), element_info)
                \o If(AnyIn(attrs, PAYMENT_ATTR), element_info),
        shipping_elements |->
            If(AnyIn(text_content, SHIPPING_TEXT), element_info)
                \o If(AnyIn(attrs, SHIPPING_ATTR), element_info),
        discount_elements |->
            If(AnyIn(text_content, DISCOUNT_TEXT), element_info)
                \o If(AnyIn(attrs, DISCOUNT_ATTR), element_info),
        validation_elements |->
            If(AnyIn(element_class, VALIDATION_CLASS), element_info)]

BucketNames ==
    {"buttons", "inputs", "forms", "cart_elements", "payment_elements",
     "shipping_elements", "discount_elements", "validation_elements"}

\* selectors_data['all_selectors'] before line 78
AllSelectors(html_content) ==
    Concat([i \in DOMAIN html_content |-> ElementSelectors(html_content[i])])

\* list(set(selectors)): the distinct selectors in an order the set's
\* hashing decides; any order can come out
\* (Orders(S): the sequences that hold every member of S once)
RECURSIVE Orders(_)
Orders(S) ==
    IF S = {} THEN {<<>>}
    ELSE UNION {{<<x>> \o o : o \in Orders(S \ {x})} : x \in S}

\* selectors.py:78 without the set: the list as it was collected
SetOrdersKeepingDuplicates(selectors) == {selectors}

SetOrders(selectors) == Orders(Range(selectors))

\* selectors.py:12-80. set_order: the order list(set(...)) came out in.
extract_selectors(html_content, set_order) ==
    LET cats == [i \in DOMAIN html_content |->
                    categorize_semantic(html_content[i],
                                        ElementInfo(html_content[i]))]
    IN [all_selectors |-> set_order,
        by_type |->
            [ids |-> Concat([i \in DOMAIN html_content |->
                        If(html_content[i].id # <<>>,
                           IdSelector(html_content[i].id))]),
             names |-> Concat([i \in DOMAIN html_content |->
                        If(html_content[i].name # <<>>,
                           NameSelector(html_content[i].name))]),
             classes |-> Concat([i \in DOMAIN html_content |->
                        [k \in DOMAIN html_content[i].class |->
                            ClassSelector(html_content[i].class[k])]]),
             data_test |-> Concat([i \in DOMAIN html_content |->
                        If(html_content[i].data_test # <<>>,
                           DataTestSelector(html_content[i].data_test))])],
        semantic |->
            [b \in BucketNames |-> Concat([i \in DOMAIN cats |-> cats[i][b]])]]

\* ', '.join(selectors)
RECURSIVE JoinComma(_)
JoinComma(selectors) ==
    IF selectors = <<>> THEN <<>>
    ELSE IF Len(selectors) = 1 THEN selectors[1]
    ELSE selectors[1] \o <<", ">> \o JoinComma(Tail(selectors))

\* selectors.py:132, 136, ...: f"  {tag}: {', '.join(selectors)}"
ElementLine(info) == <<"  ", info.tag, ": ">> \o JoinComma(info.selectors)

ElementLines(bucket) == [i \in DOMAIN bucket |-> ElementLine(bucket[i])]

\* selectors.py:125-156 with the flat selector list written out as well
format_for_storage_listing_all(selectors_data) ==
    <<<<"=== HTML SELECTORS ===\n">>,
      <<"Total unique selectors: ">> \o JoinComma(selectors_data.all_selectors)>>
      \o <<<<"\n--- Buttons ---">>>>
      \o ElementLines(selectors_data.semantic.buttons)
      \o <<<<"\n--- Input Fields ---">>>>
      \o ElementLines(selectors_data.semantic.inputs)
      \o <<<<"\n--- Cart Elements ---">>>>
      \o ElementLines(selectors_data.semantic.cart_elements)
      \o <<<<"\n--- Payment Elements ---">>>>
      \o ElementLines(selectors_data.semantic.payment_elements)
      \o <<<<"\n--- Shipping Elements ---">>>>
      \o ElementLines(selectors_data.semantic.shipping_elements)
      \o <<<<"\n--- Discount Elements ---">>>>
      \o ElementLines(selectors_data.semantic.discount_elements)

\* selectors.py:125-156: the lines of the text
format_for_storage(selectors_data) ==
    <<<<"=== HTML SELECTORS ===\n">>,
      <<"Total unique selectors: ",
        ToString(Len(selectors_data.all_selectors)), "\n">>>>
      \o <<<<"\n--- Buttons ---">>>>
      \o ElementLines(selectors_data.semantic.buttons)
      \o <<<<"\n--- Input Fields ---">>>>
      \o ElementLines(selectors_data.semantic.inputs)
      \o <<<<"\n--- Cart Elements ---">>>>
      \o ElementLines(selectors_data.semantic.cart_elements)
      \o <<<<"\n--- Payment Elements ---">>>>
      \o ElementLines(selectors_data.semantic.payment_elements)
      \o <<<<"\n--- Shipping Elements ---">>>>
      \o ElementLines(selectors_data.semantic.shipping_elements)
      \o <<<<"\n--- Discount Elements ---">>>>
      \o ElementLines(selectors_data.semantic.discount_elements)

(***************************************************************************)
(* The text splitter (ingest.py:42-47, 137): RecursiveCharacterTextSplitter *)
(* with length_function=len and the separators "\n\n", "\n", ". ", " ", "".*)
(* A text is the sequence of the lengths of its words, single spaces        *)
(* between them and no other separator in it, every word shorter than the   *)
(* chunk size; the splitter then cuts at the spaces, keeps each space at    *)
(* the head of the word after it, packs the pieces and strips each chunk.   *)
(* A chunk is the stretch of the text it holds: the offsets of its first    *)
(* and last character, counted from 1.                                      *)
(***************************************************************************)
CHUNK_SIZE == 550        \* ingest.py:43
CHUNK_OVERLAP == 120     \* ingest.py:44

\* the length of the k-th piece: the word, and the space before it
PieceLen(words, k) == IF k = 1 THEN words[k] ELSE words[k] + 1

RECURSIVE WordStart(_, _)
WordStart(words, k) ==
    IF k = 1 THEN 1 ELSE WordStart(words, k - 1) + words[k - 1] + 1

WordEnd(words, k) == WordStart(words, k) + words[k] - 1

TextLen(words) == IF words = <<>> THEN 0 ELSE WordEnd(words, Len(words))

\* the pieces first..last joined and stripped
Stretch(words, first, last) ==
    [start |-> WordStart(words, first), end |-> WordEnd(words, last)]

\* the pieces dropped from the head of the current chunk before the piece
\* of length len joins it: what is kept is the overlap
RECURSIVE DropHead(_, _, _, _, _)
DropHead(words, first, total, len, overlap) ==
    IF total > overlap \/ (total + len > CHUNK_SIZE /\ total > 0)
    THEN DropHead(words, first + 1, total - PieceLen(words, first), len, overlap)
    ELSE [first |-> first, total |-> total]

\* the splitter's packing of the pieces k.. into chunks, the current chunk
\* being the pieces first..k-1 of total length total
RECURSIVE MergeSplits(_, _, _, _, _)
MergeSplits(words, k, first, total, overlap) ==
    IF k > Len(words)
    THEN (IF first < k THEN <<Stretch(words, first, k - 1)>> ELSE <<>>)
    ELSE LET len == PieceLen(words, k)
         IN IF total + len > CHUNK_SIZE /\ first < k
            THEN LET kept == DropHead(words, first, total, len, overlap)
                 IN <<Stretch(words, first, k - 1)>>
                      \o MergeSplits(words, k + 1, kept.first,
                                     kept.total + len, overlap)
            ELSE MergeSplits(words, k + 1, first, total + len, overlap)

\* text_splitter.split_text(text)
split_text(words) == MergeSplits(words, 1, 1, 0, CHUNK_OVERLAP)

(***************************************************************************)
(* The collection's query.  The embedding model and the vector index are   *)
(* external: Distance stands for the cosine distance between the           *)
(* embeddings of a query and of a stored text, a fixed function of both.   *)
(***************************************************************************)
\* script_generation.py:31
SELECTOR_QUERY ==
    <<"HTML selectors buttons inputs forms cart payment shipping discount">>

Distance(query, text) ==
    IF query = SELECTOR_QUERY
    THEN (IF text[1] = "html_text" THEN 0 ELSE 2) + text[3]
    ELSE (Len(text[2]) + text[3] + Len(query)) % 3

Matches(e, where) == where = "" \/ e.metadata.doc_type = where

\* the position of the nearest entry of a non-empty sequence, the earliest
\* inserted among equals
Nearest(query, es) ==
    CHOOSE i \in DOMAIN es :
        \A j \in DOMAIN es :
            \/ Distance(query, es[i].text) < Distance(query, es[j].text)
            \/ /\ Distance(query, es[i].text) = Distance(query, es[j].text)
               /\ i <= j

Without(es, i) == SubSeq(es, 1, i - 1) \o SubSeq(es, i + 1, Len(es))

RECURSIVE NearestFirst(_, _, _)
NearestFirst(query, es, n) ==
    IF n = 0 \/ es = <<>> THEN <<>>
    ELSE LET i == Nearest(query, es)
         IN <<es[i]>> \o NearestFirst(query, Without(es, i), n - 1)

\* collection.query(query_embeddings, n_results, where): the n_results
\* entries nearest to the query among those the filter admits, nearest first
collection_query(entries, query, n_results, where) ==
    NearestFirst(query, SelectSeq(entries, LAMBDA e : Matches(e, where)),
                 n_results)

\* rag.py:29-51 with the default top_k of line 29 whatever the caller asks
retrieve_context_default_k(entries, query, top_k) ==
    LET docs == collection_query(entries, query, 6, "")
    IN [i \in DOMAIN docs |->
          Chunk(docs[i].text, docs[i].metadata.source_document,
                docs[i].metadata.doc_type, docs[i].metadata.chunk_index,
                Distance(query, docs[i].text))]

\* rag.py:29-51: the top_k entries nearest to the query, nearest first, each
\* with its text, its metadata and its distance
retrieve_context(entries, query, top_k) ==
    LET docs == collection_query(entries, query, top_k, "")
    IN [i \in DOMAIN docs |->
          Chunk(docs[i].text, docs[i].metadata.source_document,
                docs[i].metadata.doc_type, docs[i].metadata.chunk_index,
                Distance(query, docs[i].text))]

(***************************************************************************)
(* SeleniumScriptGenerator (backend/script_generation.py).                 *)
(* self.collection is None when the collection did not exist at            *)
(* construction (script_generation.py:18-21).  A script text is a sequence *)
(* of words; the backend's text a sequence of segments: fence_python       *)
(* (```python), fence (```), ws, code.                                     *)
(***************************************************************************)
SELECTOR_RESULTS == 5     \* script_generation.py:36
DOC_RESULTS == 3          \* script_generation.py:55

Collection(present, entries) == [present |-> present, entries |-> entries]

\* What a run does, in order: idx is the loop position it happens at.
QueryEvent(query, n_results, where) ==
    [ev |-> "query", idx |-> 0, query |-> query, n_results |-> n_results,
     where |-> where]
Event(e) == [ev |-> e, idx |-> 0, query |-> <<>>, n_results |-> 0, where |-> ""]
At(events, idx) == [i \in DOMAIN events |-> [events[i] EXCEPT !.idx = idx]]

Retrieved(value, events) ==
    [raised |-> FALSE, value |-> value, events |-> events]
RetrievalRaised(events) ==
    [raised |-> TRUE, value |-> <<>>, events |-> events]

\* script_generation.py:26-45 without the where filter of line 37
retrieve_html_selectors_unfiltered(collection, fault) ==
    IF ~collection.present THEN Retrieved(<<>>, <<>>)
    ELSE LET q == QueryEvent(SELECTOR_QUERY, SELECTOR_RESULTS, "")
             docs == collection_query(collection.entries, SELECTOR_QUERY,
                                      SELECTOR_RESULTS, "")
         IN IF fault THEN RetrievalRaised(<<q>>)
            ELSE Retrieved([i \in DOMAIN docs |-> docs[i].text], <<q>>)

\* script_generation.py:26-45. fault: the embedding or the query raises.
retrieve_html_selectors(collection, fault) ==
    IF ~collection.present THEN Retrieved(<<>>, <<>>)
    ELSE LET q == QueryEvent(SELECTOR_QUERY, SELECTOR_RESULTS, "html_dom")
             docs == collection_query(collection.entries, SELECTOR_QUERY,
                                      SELECTOR_RESULTS, "html_dom")
         IN IF fault THEN RetrievalRaised(<<q>>)
            ELSE Retrieved([i \in DOMAIN docs |-> docs[i].text], <<q>>)

\* script_generation.py:51
doc_query(test_case) == <<test_case.Feature>> \o test_case.Test_Scenario

\* script_generation.py:47-62
retrieve_relevant_docs(collection, test_case, fault) ==
    IF ~collection.present THEN Retrieved(<<>>, <<>>)
    ELSE LET q == QueryEvent(doc_query(test_case), DOC_RESULTS, "")
             docs == collection_query(collection.entries, doc_query(test_case),
                                      DOC_RESULTS, "")
         IN IF fault THEN RetrievalRaised(<<q>>)
            ELSE Retrieved([i \in DOMAIN docs |->
                              <<docs[i].metadata.source_document, docs[i].text>>],
                           <<q>>)

ScriptTexts ==
    {<<>>,
     <<Seg("code")>>,
     <<Seg("fence_python"), Seg("ws"), Seg("code"), Seg("ws"), Seg("fence")>>}

ScriptBackends ==
    {[fails |-> TRUE, error |-> "429 quota exceeded", text |-> <<>>]}
        \cup {[fails |-> FALSE, error |-> "", text |-> t] : t \in ScriptTexts}

\* script.replace("```python", "")
ReplaceFencePython(t) == SelectSeq(t, LAMBDA s : s.seg # "fence_python")

\* script.replace("```", ""): every ``` goes, so ```python leaves "python"
ReplaceFenceInScript(t) ==
    LET kept == SelectSeq(t, LAMBDA s : s.seg # "fence")
    IN [i \in DOMAIN kept |->
            IF kept[i].seg = "fence_python" THEN Seg("other") ELSE kept[i]]

\* script_generation.py:125-128
clean_script(script) ==
    IF script # <<>> /\ Head(script).seg = "fence_python"
    THEN Strip(ReplaceFenceInScript(ReplaceFencePython(script)))
    ELSE IF script # <<>> /\ Head(script).seg = "fence"
         THEN Strip(ReplaceFenceInScript(script))
         ELSE script

\* script_generation.py:129-135
header(test_case) ==
    <<"#!/usr/bin/env python3", "# Auto-generated Selenium test script",
      test_case.Test_ID, test_case.Feature>> \o test_case.Grounded_In

\* script_generation.py:138-164
error_script(test_case, error) ==
    <<"#!/usr/bin/env python3", "# ERROR: Failed to generate script", error,
      test_case.Test_ID, test_case.Feature, "def run_test", error>>

\* html_selectors, relevant_docs: the evidence of lines 73-74, which the
\* prompt quotes
ScriptOut(raised, text, events, html_selectors, relevant_docs) ==
    [raised |-> raised, text |-> text, events |-> events,
     html_selectors |-> html_selectors, relevant_docs |-> relevant_docs]

\* script_generation.py:64-165. faults: which of the two retrievals raises.
generate_script(collection, test_case, faults, backend) ==
    LET sel == retrieve_html_selectors(collection, faults.selectors)
        docs == retrieve_relevant_docs(collection, test_case, faults.docs)
        response == generate_content(backend)
        call == [i \in 1..response.calls |-> Event("backend_call")]
    IN IF sel.raised THEN ScriptOut(TRUE, <<>>, sel.events, <<>>, <<>>)
       ELSE IF docs.raised
       THEN ScriptOut(TRUE, <<>>, sel.events \o docs.events, sel.value, <<>>)
       ELSE ScriptOut(FALSE,
                IF backend.fails
                THEN error_script(test_case, backend.error)
                ELSE LET script == clean_script(backend.text)
                     IN header(test_case)
                            \o [i \in DOMAIN script |-> script[i].seg],
                sel.events \o docs.events \o call, sel.value, docs.value)

(***************************************************************************)
(* The client's collection calls.  A store is Collection(present, entries):*)
(* whether ./db holds the collection, and its entries.                     *)
(***************************************************************************)
\* client.delete_collection: raises when there is no such collection
delete_collection(store) ==
    IF store.present
    THEN [raised |-> FALSE, store |-> Collection(FALSE, <<>>)]
    ELSE [raised |-> TRUE, store |-> store]

\* client.get_or_create_collection
get_or_create_collection(store) ==
    IF store.present THEN store ELSE Collection(TRUE, <<>>)

\* ingest.py:23-40 without the reset of lines 25-29
ingestion_init_without_reset(store, reset) ==
    get_or_create_collection(store)

\* ingest.py:23-40: the store DocumentIngestion(reset) leaves
ingestion_init(store, reset) ==
    get_or_create_collection(
        IF reset THEN delete_collection(store).store ELSE store)

\* app.py:204-218 with a failed delete_collection passed on
reset_kb_strict(store) ==
    LET d == delete_collection(store)
    IN [raised |-> d.raised, warned |-> FALSE, store |-> d.store]

\* app.py:204-218: a failed delete_collection becomes a warning
reset_kb(store) ==
    LET d == delete_collection(store)
    IN [raised |-> FALSE, warned |-> d.raised, store |-> d.store]

(***************************************************************************)
(* render_phase_3 (app.py:509-550): the script-synthesis run over the      *)
(* selected test cases.  generated_scripts is the dict as a sequence of    *)
(* <<key, script>> pairs in insertion order.                               *)
(***************************************************************************)
DictSet(d, key, value) ==
    IF \E i \in DOMAIN d : d[i][1] = key
    THEN [i \in DOMAIN d |-> IF d[i][1] = key THEN <<key, value>> ELSE d[i]]
    ELSE Append(d, <<key, value>>)

\* app.py:536 with the wait after every test case
rate_limit_wait_always(idx, total_cases) == idx < total_cases

\* app.py:536
rate_limit_wait(idx, total_cases) == idx < total_cases - 1

\* A Test_ID the backend wrote as a JSON array: a list, which no dict takes
\* as a key (TypeError: unhashable type).
ArrayId == "[TC-004]"
Hashable(key) == key # ArrayId

\* app.py:523-542: the loop body for the test case at position idx (0-based).
\* An exception of generate_script, and one of line 530, reach the handler
\* of line 540; one raised by the handler's own line 542 leaves the loop for
\* the handler of line 552, which ends the run with nothing saved.
script_iteration(run, faults, backend) ==
    LET tc == run.selected[run.idx + 1]
        total_cases == Len(run.selected)
        r == generate_script(run.collection, tc, faults, backend)
        waits == ~r.raised /\ Hashable(tc.Test_ID)
                    /\ rate_limit_wait(run.idx, total_cases)
    IN [run EXCEPT
          !.pc = IF Hashable(tc.Test_ID) THEN @ ELSE "aborted",
          !.idx = @ + 1,
          !.last = [test_case |-> <<tc>>, faults |-> faults,
                    backend |-> backend, out |-> r],
          !.generated_scripts =
              IF ~Hashable(tc.Test_ID) THEN @
              ELSE DictSet(@, tc.Test_ID,
                      IF r.raised
                      THEN <<"# Error generating script for", tc.Test_ID>>
                      ELSE r.text),
          !.events =
              @ \o At(<<Event("begin")>> \o r.events
                        \o (IF waits THEN <<Event("sleep")>> ELSE <<>>),
                      run.idx)]

(***************************************************************************)
(* The values of the variables a specification does not use.               *)
(***************************************************************************)
GenUnused ==
    [pc |-> "unused", user_query |-> "", retrieved_chunks |-> <<>>,
     backend |-> [fails |-> FALSE, error |-> "", text |-> <<>>],
     context |-> <<>>, content |-> <<>>, parsed |-> <<>>,
     test_cases |-> <<>>, out |-> Returned(<<>>)]

ParseUnused ==
    [pc |-> "unused", filename |-> <<>>, content |-> Content(TRUE, TRUE, 0),
     out |-> Parsed(Text("", 0), "")]

IngUnused ==
    [pc |-> "unused", on_duplicate |-> "raise", chunk_counter |-> 0,
     entries |-> <<>>, issued |-> <<>>, handed |-> 0, before |-> <<>>,
     uploaded_files |-> <<>>, stats |-> EmptyStats, raised |-> FALSE,
     chunk_calls |-> <<>>]

NoFaults == [selectors |-> FALSE, docs |-> FALSE]

ScrUnused ==
    [pc |-> "unused", collection |-> Collection(FALSE, <<>>), selected |-> <<>>,
     idx |-> 0, generated_scripts |-> <<>>, events |-> <<>>,
     last |-> [test_case |-> <<>>, faults |-> NoFaults,
               backend |-> [fails |-> FALSE, error |-> "", text |-> <<>>],
               out |-> ScriptOut(FALSE, <<>>, <<>>, <<>>, <<>>)],
     session_scripts |-> <<>>]

HelperUnused == [pc |-> "unused", arg |-> <<>>, out |-> <<>>]

\* st.session_state as app.py:84-93 initialises it; present: whether ./db
\* holds the collection; clicks, op: the handlers run so far and the last
SessionState(pc) ==
    [pc |-> pc, present |-> FALSE, kb_built |-> FALSE, test_cases |-> <<>>,
     selected_test_cases |-> <<>>, generated_scripts |-> <<>>,
     clicks |-> 0, op |-> ""]

SessionUnused == SessionState("unused")

KbUnused ==
    [pc |-> "unused", on_duplicate |-> "raise", present |-> FALSE,
     entries |-> <<>>, before |-> <<>>, op |-> "", prev |-> "", ops |-> 0,
     handed |-> 0, raised |-> FALSE, warned |-> FALSE, query |-> <<>>,
     top_k |-> 0,
     stats |-> EmptyStats, retrieved |-> <<>>, returned |-> <<>>,
     backend |-> <<>>, backend_calls |-> 0, context |-> <<>>]

(***************************************************************************)
(* The parsing specification: parse_document on every filename and content *)
(* of the bounded sets.                                                    *)
(***************************************************************************)
ParseInit ==
    /\ \E fn \in Filenames, c \in Contents :
          parse = [ParseUnused EXCEPT !.pc = "called", !.filename = fn,
                                      !.content = c]
    /\ gen = GenUnused
    /\ ing = IngUnused
    /\ scr = ScrUnused
    /\ kb = KbUnused
    /\ helper = HelperUnused
    /\ session = SessionUnused

ParseDocument ==
    /\ parse.pc = "called"
    /\ parse' = [parse EXCEPT !.pc = "returned",
                              !.out = parse_document(parse.content, parse.filename)]
    /\ UNCHANGED <<gen, ing, scr, kb, helper, session>>

ParseNext == ParseDocument

SpecParse == ParseInit /\ [][ParseNext]_vars

(***************************************************************************)
(* The ingestion specification: one DocumentIngestion instance on a fresh  *)
(* collection, handed batches of files.                                    *)
(***************************************************************************)
File(filename, content, fault) ==
    [filename |-> filename, content |-> content, fault |-> fault]

FnA == <<"a", ".", "t", "x", "t">>
FnA1 == <<"a", "_", "1", ".", "t", "x", "t">>
FnAJson == <<"a", ".", "j", "s", "o", "n">>

\* Files with the same name, the same stem, a stem ending in _<digits>, no
\* chunks, and a failure at each stage.
IngestFiles ==
    {File(FnA, Content(TRUE, TRUE, 2), "none"),
     File(FnA, Content(FALSE, FALSE, 1), "none"),
     File(FnA, Content(TRUE, TRUE, 2), "embed"),
     File(FnA, Content(TRUE, TRUE, 1), "split"),
     File(FnA1, Content(TRUE, TRUE, 1), "none"),
     File(FnA1, Content(TRUE, TRUE, 0), "none"),
     File(FnAJson, Content(TRUE, FALSE, 1), "none"),
     File(FnAJson, Content(TRUE, TRUE, 0), "embed")}

Batches(n) == UNION {[1..k -> IngestFiles] : k \in 0..n}

\* ingest.py:19-50 on a store without the collection
IngInit ==
    /\ \E d \in {"raise", "skip"} :
          ing = [IngUnused EXCEPT !.pc = "ready", !.on_duplicate = d]
    /\ gen = GenUnused
    /\ parse = ParseUnused
    /\ scr = ScrUnused
    /\ kb = KbUnused
    /\ helper = HelperUnused
    /\ session = SessionUnused

IngestDocuments ==
    /\ ing.pc \in {"ready", "returned"}
    /\ \E files \in Batches(MaxFiles - ing.handed) :
          LET r == ingest_documents(ing.chunk_counter, ing.entries, ing.issued,
                                    files, ing.on_duplicate)
          IN ing' = [ing EXCEPT
                        !.pc = "returned",
                        !.chunk_counter = r.chunk_counter,
                        !.entries = r.entries,
                        !.issued = r.issued,
                        !.handed = @ + Len(files),
                        !.before = ing.entries,
                        !.uploaded_files = files,
                        !.stats = r.stats,
                        !.raised = r.raised,
                        !.chunk_calls = r.chunk_calls]
    /\ UNCHANGED <<gen, parse, scr, kb, helper, session>>

IngNext == IngestDocuments

SpecIngest == IngInit /\ [][IngNext]_vars

(***************************************************************************)
(* The script specification: one click on "Generate Selenium Scripts".     *)
(***************************************************************************)
HtmlEntry ==
    [id |-> <<"x", "_", "1">>,
     text |-> <<"html_text", <<"x", ".", "h", "t", "m", "l">>, 0>>,
     metadata |-> [source_document |-> <<"x", ".", "h", "t", "m", "l">>,
                   doc_type |-> "html_dom", chunk_index |-> 0]]
SpecEntry ==
    [id |-> <<"n", "_", "2">>,
     text |-> <<"md_text", <<"n", ".", "m", "d">>, 0>>,
     metadata |-> [source_document |-> <<"n", ".", "m", "d">>,
                   doc_type |-> "spec", chunk_index |-> 0]]

\* The chunks of a long page and of a long document.
PageEntry(i) ==
    [HtmlEntry EXCEPT !.id = <<"x", "_", ToString(i + 1)>>,
                      !.text[3] = i, !.metadata.chunk_index = i]
NoteEntry(i) ==
    [SpecEntry EXCEPT !.id = <<"n", "_", ToString(i + 7)>>,
                      !.text[3] = i, !.metadata.chunk_index = i]

\* More page chunks than the selector retrieval asks for, and more document
\* chunks than the document retrieval asks for.
LargeCollection ==
    Collection(TRUE,
        [i \in 1..(SELECTOR_RESULTS + 1) |-> PageEntry(i - 1)]
            \o [i \in 1..(DOC_RESULTS + 1) |-> NoteEntry(i - 1)])

\* The collection at construction: missing, empty, without HTML, with HTML,
\* large.
ScriptCollections ==
    {Collection(FALSE, <<>>), Collection(TRUE, <<>>),
     Collection(TRUE, <<SpecEntry>>), Collection(TRUE, <<HtmlEntry, SpecEntry>>),
     LargeCollection}

\* Test cases the session can show and select: objects with the five fields.
TcArrayId == [TcB EXCEPT !.Test_ID = ArrayId]
SelectableCases == {TcA, TcB, TcArrayId}

Selections == UNION {[1..n -> SelectableCases] : n \in 1..MaxSelected}

Faults == [selectors : BOOLEAN, docs : BOOLEAN]

\* app.py:518-521
ScrInit ==
    /\ \E c \in ScriptCollections, sel \in Selections :
          scr = [ScrUnused EXCEPT !.pc = "running", !.collection = c,
                                  !.selected = sel]
    /\ kb = KbUnused
    /\ helper = HelperUnused
    /\ gen = GenUnused
    /\ parse = ParseUnused
    /\ ing = IngUnused
    /\ session = SessionUnused

\* app.py:523-542
ScriptIteration ==
    /\ scr.pc = "running"
    /\ scr.idx < Len(scr.selected)
    /\ \E f \in Faults, b \in ScriptBackends :
          /\ scr.collection.present \/ f = NoFaults
          /\ f.selectors => ~f.docs
          /\ scr' = script_iteration(scr, f, b)
    /\ UNCHANGED <<gen, parse, ing, kb, helper, session>>

\* app.py:544-550
ScriptRunEnds ==
    /\ scr.pc = "running"
    /\ scr.idx = Len(scr.selected)
    /\ scr' = [scr EXCEPT !.pc = "done",
                          !.session_scripts = scr.generated_scripts]
    /\ UNCHANGED <<gen, parse, ing, kb, helper, session>>

ScrNext == ScriptIteration \/ ScriptRunEnds

SpecScript == ScrInit /\ [][ScrNext]_vars

(***************************************************************************)
(* The store specification: the operations that open the persistent store  *)
(* ./db, in any order.  Every operation builds its own client and its own  *)
(* DocumentIngestion, RAGEngine or SeleniumScriptGenerator.                *)
(***************************************************************************)
FnXHtml == <<"x", ".", "h", "t", "m", "l">>
FnNMd == <<"n", ".", "m", "d">>

\* Two files with the same stem, a page, and a file that does not decode.
StoreFiles ==
    {File(FnA, Content(TRUE, TRUE, 1), "none"),
     File(FnAJson, Content(TRUE, TRUE, 2), "none"),
     File(FnXHtml, Content(TRUE, TRUE, 1), "none"),
     File(FnNMd, Content(FALSE, TRUE, 1), "none")}

Uploads(n) == UNION {[1..k -> StoreFiles] : k \in 1..n}

StoreQueries == {<<"test discount codes">>}

StoreBackends ==
    {[fails |-> TRUE, error |-> "429 quota exceeded", text |-> <<>>],
     [fails |-> FALSE, error |-> "", text |-> <<DocSeg(JsonArr(<<TcA, TcB>>))>>]}

TOP_K == 6     \* app.py:361

KbInit ==
    /\ \E d \in {"raise", "skip"} :
          kb = [KbUnused EXCEPT !.pc = "open", !.on_duplicate = d]
    /\ gen = GenUnused
    /\ parse = ParseUnused
    /\ ing = IngUnused
    /\ scr = ScrUnused
    /\ helper = HelperUnused
    /\ session = SessionUnused

CurrentStore == Collection(kb.present, kb.entries)

KbStep(op) ==
    [kb EXCEPT !.op = op, !.prev = kb.op, !.ops = @ + 1,
               !.before = kb.entries, !.raised = FALSE, !.warned = FALSE,
               !.query = <<>>, !.top_k = 0,
               !.retrieved = <<>>, !.returned = <<>>,
               !.backend = <<>>, !.backend_calls = 0, !.context = <<>>]

\* app.py:220-262: DocumentIngestion(reset=True), which deletes the
\* collection and creates it anew (ingest.py:25-35), then ingest_documents
BuildKnowledgeBase ==
    /\ kb.pc = "open" /\ kb.ops < MaxOps /\ kb.handed < MaxUploads
    /\ \E files \in Uploads(MaxUploads - kb.handed) :
          LET store == ingestion_init(CurrentStore, TRUE)
              r == ingest_documents(0, store.entries, <<>>, files,
                                    kb.on_duplicate)
          IN kb' = [KbStep("build") EXCEPT
                       !.present = store.present, !.entries = r.entries,
                       !.handed = @ + Len(files), !.stats = r.stats]
    /\ UNCHANGED <<gen, parse, ing, scr, helper, session>>

\* DocumentIngestion() with its default reset=False (ingest.py:19), which
\* opens the collection as it is (ingest.py:35-38), then ingest_documents
IngestIntoStore ==
    /\ kb.pc = "open" /\ kb.ops < MaxOps /\ kb.handed < MaxUploads
    /\ \E files \in Uploads(MaxUploads - kb.handed) :
          LET store == ingestion_init(CurrentStore, FALSE)
              r == ingest_documents(0, store.entries, <<>>, files,
                                    kb.on_duplicate)
          IN kb' = [KbStep("ingest") EXCEPT
                       !.present = store.present, !.entries = r.entries,
                       !.handed = @ + Len(files), !.stats = r.stats]
    /\ UNCHANGED <<gen, parse, ing, scr, helper, session>>

\* app.py:204-218: delete_collection raises when there is no collection,
\* and the handler only warns
ResetKB ==
    /\ kb.pc = "open" /\ kb.ops < MaxOps
    /\ LET r == reset_kb(CurrentStore)
       IN kb' = [KbStep("reset") EXCEPT
                    !.present = r.store.present, !.entries = r.store.entries,
                    !.raised = r.raised, !.warned = r.warned]
    /\ UNCHANGED <<gen, parse, ing, scr, helper, session>>

\* RAGEngine(), which creates the collection when it is missing
\* (rag.py:18-24), then retrieve_context(query, top_k) (rag.py:29-51)
RetrieveContext ==
    /\ kb.pc = "open" /\ kb.ops < MaxOps
    /\ \E q \in StoreQueries, k \in 1..MaxTopK :
          kb' = [KbStep("retrieve") EXCEPT
                    !.present = TRUE, !.query = q, !.top_k = k,
                    !.retrieved = retrieve_context(kb.entries, q, k)]
    /\ UNCHANGED <<gen, parse, ing, scr, helper, session>>

\* app.py:343-380: RAGEngine(), which creates the collection when it is
\* missing (rag.py:18-24), then retrieve_context and generate_test_cases
RetrieveAndGenerate ==
    /\ kb.pc = "open" /\ kb.ops < MaxOps
    /\ \E q \in StoreQueries, b \in StoreBackends :
          LET chunks == retrieve_context(kb.entries, q, TOP_K)
              r == generate_test_cases(q, chunks, b)
          IN kb' = [KbStep("generate") EXCEPT
                       !.present = TRUE, !.query = q, !.top_k = TOP_K,
                       !.retrieved = chunks,
                       !.returned = r.out.value,
                       !.backend = <<b>>,
                       !.backend_calls = r.backend_calls,
                       !.context = r.context]
    /\ UNCHANGED <<gen, parse, ing, scr, helper, session>>

\* app.py:518 and 529: SeleniumScriptGenerator(), whose collection is None
\* when there is none (script_generation.py:18-21), then generate_script
SynthesizeScript ==
    /\ kb.pc = "open" /\ kb.ops < MaxOps
    /\ \E tc \in {TcA}, b \in ScriptBackends :
          LET r == generate_script(Collection(kb.present, kb.entries), tc,
                                   NoFaults, b)
          IN kb' = [KbStep("synthesize") EXCEPT
                       !.returned = r.text,
                       !.backend = <<b>>,
                       !.backend_calls =
                           Len(SelectSeq(r.events,
                                  LAMBDA e : e.ev = "backend_call"))]
    /\ UNCHANGED <<gen, parse, ing, scr, helper, session>>

KbNext ==
    \/ BuildKnowledgeBase
    \/ IngestIntoStore
    \/ ResetKB
    \/ RetrieveContext
    \/ RetrieveAndGenerate
    \/ SynthesizeScript

SpecStore == KbInit /\ [][KbNext]_vars

(***************************************************************************)
(* The flattening specification: _flatten_json on one JSON document.       *)
(***************************************************************************)
JsonScalars == {PyScalar("1"), PyScalar("true")}

\* Containers of at most two children, one of them a scalar; a dict has the
\* keys "a" and "" in either order.
Containers(values) ==
    LET pairs == (values \X JsonScalars) \cup (JsonScalars \X values)
    IN {PyDict(<<>>), PyList(<<>>)}
         \cup {PyDict(<<Member(k, v)>>) : k \in {"a", ""}, v \in values}
         \cup {PyList(<<v>>) : v \in values}
         \cup {PyDict(<<Member(ks[1], p[1]), Member(ks[2], p[2])>>) :
                  ks \in {<<"a", "">>, <<"", "a">>}, p \in pairs}
         \cup {PyList(<<p[1], p[2]>>) : p \in pairs}

RECURSIVE JsonValues(_)
JsonValues(depth) ==
    IF depth = 0 THEN JsonScalars
    ELSE JsonValues(depth - 1) \cup Containers(JsonValues(depth - 1))

JsonDocuments == Containers(JsonValues(MaxDepth - 1))

FlattenInit ==
    /\ \E data \in JsonDocuments :
          helper = [pc |-> "called", arg |-> data, out |-> <<>>]
    /\ gen = GenUnused
    /\ parse = ParseUnused
    /\ ing = IngUnused
    /\ scr = ScrUnused
    /\ kb = KbUnused
    /\ session = SessionUnused

FlattenJson ==
    /\ helper.pc = "called"
    /\ helper' = [helper EXCEPT !.pc = "returned",
                                !.out = flatten_json(helper.arg, "")]
    /\ UNCHANGED <<gen, parse, ing, scr, kb, session>>

FlattenNext == FlattenJson

SpecFlatten == FlattenInit /\ [][FlattenNext]_vars

(***************************************************************************)
(* The selector specification: _parse_html's use of the extractor          *)
(* (ingest.py:124-126) on one page.                                        *)
(***************************************************************************)
\* <button id="pay-btn" class="cart-btn">Pay</button>
PayButton ==
    Element("button", <<"p", "a", "y", "-", "b", "t", "n">>, <<>>,
            <<<<"c", "a", "r", "t", "-", "b", "t", "n">>>>, <<>>, <<>>,
            <<"P", "a", "y">>)
\* <input name="qty">
QtyInput ==
    Element("input", <<>>, <<"q", "t", "y">>,
            <<>>, <<>>, <<>>,
            <<>>)
\* <div class="error promo">Express delivery</div>
PromoDiv ==
    Element("div", <<>>, <<>>,
            <<<<"e", "r", "r", "o", "r">>, <<"p", "r", "o", "m", "o">>>>, <<>>, <<>>,
            <<"E", "x", "p", "r", "e", "s", "s", " ", "d", "e", "l", "i", "v", "e", "r", "y">>)
\* <form id="checkout">, holding a Pay button
CheckoutForm ==
    Element("form", <<"c", "h", "e", "c", "k", "o", "u", "t">>, <<>>,
            <<>>, <<>>, <<>>,
            <<"P", "a", "y">>)
\* <input type="submit" data-test="apply">
ApplySubmit ==
    Element("input", <<>>, <<>>,
            <<>>, <<"a", "p", "p", "l", "y">>, <<"s", "u", "b", "m", "i", "t">>,
            <<>>)
\* <div></div>
PlainDiv ==
    Element("div", <<>>, <<>>,
            <<>>, <<>>, <<>>,
            <<>>)
\* <button id="pay-btn">Add to cart</button>: an id the page may hold twice
CartButton ==
    Element("button", <<"p", "a", "y", "-", "b", "t", "n">>, <<>>,
            <<>>, <<>>, <<>>,
            <<"A", "d", "d", " ", "t", "o", " ", "c", "a", "r", "t">>)
\* <select id="Shipping">Standard</select>
ShippingSelect ==
    Element("select", <<"S", "h", "i", "p", "p", "i", "n", "g">>, <<>>,
            <<>>, <<>>, <<>>,
            <<"S", "t", "a", "n", "d", "a", "r", "d">>)

Elements ==
    {PayButton, QtyInput, PromoDiv, CheckoutForm, ApplySubmit, PlainDiv,
     CartButton, ShippingSelect}

\* <input id="Qty" name="qty" class="promo promo" data-test="apply"
\*        type="text">
FullInput ==
    Element("input", <<"Q", "t", "y">>, <<"q", "t", "y">>,
            <<<<"p", "r", "o", "m", "o">>, <<"p", "r", "o", "m", "o">>>>,
            <<"a", "p", "p", "l", "y">>, <<"t", "e", "x", "t">>,
            <<>>)
\* <div id="shipping"></div>: the id of ShippingSelect in another case
LowerShipping ==
    Element("div", <<"s", "h", "i", "p", "p", "i", "n", "g">>, <<>>,
            <<>>, <<>>, <<>>,
            <<>>)
\* <div id="error-box">Coupon</div>
ErrorIdDiv ==
    Element("div", <<"e", "r", "r", "o", "r", "-", "b", "o", "x">>, <<>>,
            <<>>, <<>>, <<>>,
            <<"C", "o", "u", "p", "o", "n">>)
\* <textarea id="to" name="tal"></textarea>
SplitTotalArea ==
    Element("textarea", <<"t", "o">>, <<"t", "a", "l">>,
            <<>>, <<>>, <<>>,
            <<>>)

\* Pages with an element that has every attribute, a repeated class token,
\* two ids that differ in case, a keyword in an id only, and a keyword that
\* the id and the name spell together.
RichPages ==
    {<<FullInput>>, <<FullInput, PromoDiv>>, <<PayButton, FullInput>>,
     <<ShippingSelect, LowerShipping>>, <<LowerShipping, ShippingSelect>>,
     <<ErrorIdDiv>>, <<ErrorIdDiv, PromoDiv>>, <<SplitTotalArea>>,
     <<SplitTotalArea, FullInput>>}

Pages == UNION {[1..n -> Elements] : n \in 0..MaxElements} \cup RichPages

SelInit ==
    /\ \E page \in Pages :
          helper = [pc |-> "called", arg |-> page, out |-> <<>>]
    /\ gen = GenUnused
    /\ parse = ParseUnused
    /\ ing = IngUnused
    /\ scr = ScrUnused
    /\ kb = KbUnused
    /\ session = SessionUnused

\* ingest.py:124-125
ExtractAndFormat ==
    /\ helper.pc = "called"
    /\ \E set_order \in SetOrders(AllSelectors(helper.arg)) :
          LET selectors_data == extract_selectors(helper.arg, set_order)
          IN helper' = [helper EXCEPT
                           !.pc = "returned",
                           !.out = [selectors_data |-> selectors_data,
                                    selector_text |->
                                        format_for_storage(selectors_data)]]
    /\ UNCHANGED <<gen, parse, ing, scr, kb, session>>

SelNext == ExtractAndFormat

SpecSelectors == SelInit /\ [][SelNext]_vars

(***************************************************************************)
(* The chunking specification: chunk_text on one document's text.          *)
(***************************************************************************)
WordLengths == {60, 119, 250, 400}

Texts == UNION {[1..n -> WordLengths] : n \in 0..MaxWords}

ChunkInit ==
    /\ \E words \in Texts :
          helper = [pc |-> "called", arg |-> words, out |-> <<>>]
    /\ gen = GenUnused
    /\ parse = ParseUnused
    /\ ing = IngUnused
    /\ scr = ScrUnused
    /\ kb = KbUnused
    /\ session = SessionUnused

\* ingest.py:130-153
ChunkText ==
    /\ helper.pc = "called"
    /\ LET chunks == split_text(helper.arg)
       IN helper' = [helper EXCEPT
                        !.pc = "returned",
                        !.out = [chunks |-> chunks,
                                 chunk_dicts |->
                                     chunk_text(0, Text("decoded", Len(chunks)),
                                                FnA, "spec")]]
    /\ UNCHANGED <<gen, parse, ing, scr, kb, session>>

ChunkNext == ChunkText

SpecChunk == ChunkInit /\ [][ChunkNext]_vars

(***************************************************************************)
(* The generation specification: one call of generate_test_cases on every  *)
(* query, chunk list and backend behaviour of the bounded sets.            *)
(***************************************************************************)
Queries == {"test discount codes"}

GenIdle(q, chunks, backend) ==
    [pc |-> "called", user_query |-> q, retrieved_chunks |-> chunks,
     backend |-> backend, context |-> <<>>, content |-> <<>>, parsed |-> <<>>,
     test_cases |-> <<>>, out |-> Returned(<<>>)]

GenInit ==
    /\ \E q \in Queries, chunks \in ChunkLists, backend \in BackendBehaviours :
          gen = GenIdle(q, chunks, backend)
    /\ parse = ParseUnused
    /\ ing = IngUnused
    /\ scr = ScrUnused
    /\ kb = KbUnused
    /\ helper = HelperUnused
    /\ session = SessionUnused

GenerateTestCases ==
    /\ gen.pc = "called"
    /\ LET r == generate_test_cases(gen.user_query, gen.retrieved_chunks,
                                    gen.backend)
       IN gen' = [gen EXCEPT !.pc = "returned", !.context = r.context,
                             !.content = r.content, !.parsed = r.parsed,
                             !.test_cases = r.test_cases, !.out = r.out]

GenNext == GenerateTestCases /\ UNCHANGED <<parse, ing, scr, kb, helper, session>>

SpecGen == GenInit /\ [][GenNext]_vars

(***************************************************************************)
(* The session specification: the buttons and checkboxes of phases 1 and 2 *)
(* (app.py:196-436), clicked in any order.                                 *)
(***************************************************************************)
\* app.py:204-218: the session is cleared only when delete_collection
\* succeeded
reset_button(s) ==
    LET r == reset_kb(Collection(s.present, <<>>))
    IN IF r.warned THEN s
       ELSE [s EXCEPT !.present = FALSE, !.kb_built = FALSE,
                      !.test_cases = <<>>, !.selected_test_cases = <<>>,
                      !.generated_scripts = <<>>]

\* app.py:220-262 with files to process
build_button(s) == [s EXCEPT !.present = TRUE, !.kb_built = TRUE]

\* app.py:343-380 with a query that is not blank
generate_tests(s, user_query, retrieved_chunks, backend) ==
    [s EXCEPT
        !.present = TRUE,
        !.test_cases =
            generate_test_cases(user_query, retrieved_chunks, backend).out.value]

\* app.py:388-390
select_all(s) == [s EXCEPT !.selected_test_cases = s.test_cases]

\* app.py:392-394
deselect_all(s) == [s EXCEPT !.selected_test_cases = <<>>]

\* app.py:399-400
is_selected(s, tc_id) ==
    \E i \in DOMAIN s.selected_test_cases :
        s.selected_test_cases[i].Test_ID = tc_id

\* app.py:426-429: the checkbox of the test case at position idx is ticked
checkbox_ticked(s, idx) ==
    LET tc == s.test_cases[idx + 1]
    IN IF is_selected(s, tc.Test_ID) THEN s
       ELSE [s EXCEPT !.selected_test_cases = Append(@, tc)]

\* app.py:430-436: the checkbox of the test case at position idx is cleared
checkbox_cleared(s, idx) ==
    LET tc == s.test_cases[idx + 1]
    IN IF ~is_selected(s, tc.Test_ID) THEN s
       ELSE [s EXCEPT !.selected_test_cases =
                SelectSeq(@, LAMBDA t : t.Test_ID # tc.Test_ID)]

\* A record with the Test_ID of TcA and the rest of TcB.
TcSameId == [TcB EXCEPT !.Test_ID = TcA.Test_ID]

\* What the backend does on a click: it fails, or answers with two test
\* cases, with one of them, or with two that carry the same Test_ID.
SessionBackends ==
    {[fails |-> TRUE, error |-> "429 quota exceeded", text |-> <<>>]}
        \cup {[fails |-> FALSE, error |-> "", text |-> <<DocSeg(JsonArr(l))>>] :
                l \in {<<TcA, TcB>>, <<TcB>>, <<TcA, TcSameId>>}}

SessionInit ==
    /\ session = SessionState("open")
    /\ gen = GenUnused
    /\ parse = ParseUnused
    /\ ing = IngUnused
    /\ scr = ScrUnused
    /\ kb = KbUnused
    /\ helper = HelperUnused

Click(s, op) == [s EXCEPT !.clicks = @ + 1, !.op = op]

ResetButton ==
    /\ session.pc = "open" /\ session.clicks < MaxClicks
    /\ session' = Click(reset_button(session), "reset")
    /\ UNCHANGED <<gen, parse, ing, scr, kb, helper>>

BuildButton ==
    /\ session.pc = "open" /\ session.clicks < MaxClicks
    /\ session' = Click(build_button(session), "build")
    /\ UNCHANGED <<gen, parse, ing, scr, kb, helper>>

\* app.py:306-311: phase 2 is drawn only when the knowledge base is built
GenerateTests ==
    /\ session.pc = "open" /\ session.clicks < MaxClicks
    /\ session.kb_built
    /\ \E q \in Queries, b \in SessionBackends :
          session' = Click(generate_tests(session, q, <<>>, b), "generate")
    /\ UNCHANGED <<gen, parse, ing, scr, kb, helper>>

\* app.py:382: the selection controls are drawn when there are test cases
SelectAll ==
    /\ session.pc = "open" /\ session.clicks < MaxClicks
    /\ session.kb_built /\ session.test_cases # <<>>
    /\ session' = Click(select_all(session), "select_all")
    /\ UNCHANGED <<gen, parse, ing, scr, kb, helper>>

DeselectAll ==
    /\ session.pc = "open" /\ session.clicks < MaxClicks
    /\ session.kb_built /\ session.test_cases # <<>>
    /\ session' = Click(deselect_all(session), "deselect_all")
    /\ UNCHANGED <<gen, parse, ing, scr, kb, helper>>

Select ==
    /\ session.pc = "open" /\ session.clicks < MaxClicks
    /\ session.kb_built
    /\ \E idx \in 0..(Len(session.test_cases) - 1) :
          /\ ~is_selected(session, session.test_cases[idx + 1].Test_ID)
          /\ session' = Click(checkbox_ticked(session, idx), "select")
    /\ UNCHANGED <<gen, parse, ing, scr, kb, helper>>

Deselect ==
    /\ session.pc = "open" /\ session.clicks < MaxClicks
    /\ session.kb_built
    /\ \E idx \in 0..(Len(session.test_cases) - 1) :
          /\ is_selected(session, session.test_cases[idx + 1].Test_ID)
          /\ session' = Click(checkbox_cleared(session, idx), "deselect")
    /\ UNCHANGED <<gen, parse, ing, scr, kb, helper>>

SessionNext ==
    \/ ResetButton
    \/ BuildButton
    \/ GenerateTests
    \/ SelectAll
    \/ DeselectAll
    \/ Select
    \/ Deselect

SpecSession == SessionInit /\ [][SessionNext]_vars

(***************************************************************************)
(* Claims about generate_test_cases, checked under SpecGen.                *)
(***************************************************************************)
GenReturned == gen.pc = "returned"

IsList(s) == DOMAIN s = 1..Len(s)

\* C1: generate_test_cases is total: for every query, chunk list and backend
\* behaviour (a response text or a raised failure) the call hands a list back
\* to its caller and no exception leaves it.
C1_GenerateIsTotal ==
    GenReturned => ~gen.out.raised /\ IsList(gen.out.value)

\* C1's case: the candidates are not iterable, the TypeError is caught.
C1_Witness ==
    /\ GenReturned
    /\ gen.test_cases # <<>>
    /\ gen.test_cases[1].kind = "num"
    /\ Len(gen.out.value) = 1

GenFailure ==
    IF gen.backend.fails THEN gen.backend.error ELSE json_loads(gen.content).msg

ResponseRecords ==
    UNION {Range(s.doc[1].items) \cup {s.doc[1]} : s \in {x \in Range(gen.backend.text) : x.seg = "doc"}}

\* C2: when the backend call fails, or the response is not parseable JSON
\* after fence stripping, the result is exactly one diagnostic record: its
\* Test_Scenario carries the failure description, its Grounded_In is
\* ["system_error"], and it is no record of the response.
C2_SingleDiagnostic ==
    (GenReturned /\ gen.parsed = <<>>) =>
        /\ ~gen.out.raised
        /\ Len(gen.out.value) = 1
        /\ gen.out.value[1].Grounded_In = <<"system_error">>
        /\ gen.out.value[1].Test_Scenario[2] = GenFailure
        /\ gen.out.value[1] \notin ResponseRecords

\* C2's case: a response holding a valid record, followed by stray text.
C2_Witness ==
    /\ GenReturned
    /\ ~gen.backend.fails
    /\ gen.parsed = <<>>
    /\ \E i \in DOMAIN gen.content :
          /\ gen.content[i].seg = "doc"
          /\ gen.content[i].doc[1] = JsonArr(<<TcA>>)
    /\ gen.out.value[1].Feature = "Parse Error"

\* "contains all five mandatory fields", read as the code reads it for the
\* kinds `in` is defined on; a candidate of another kind contains none.
ContainsAllFields(c) ==
    /\ SupportsIn(c)
    /\ \A i \in DOMAIN required_fields : FieldIn(required_fields[i], c)

\* C3: for a response that parses into candidates c1..cn the result is exactly
\* the subsequence of candidates holding all five mandatory fields, in order
\* and unmodified; a malformed candidate of any JSON type removes only itself.
C3_ValidSubsequence ==
    (GenReturned /\ gen.test_cases # <<>> /\ gen.test_cases[1].kind = "arr") =>
        /\ ~gen.out.raised
        /\ gen.out.value = SelectSeq(gen.test_cases[1].items, ContainsAllFields)

HasKey(p, k) == p.kind = "obj" /\ k \in Range(p.keys)

\* C4: the candidates follow the shape of the parsed response: an array gives
\* its elements, an object with a test_cases or testCases key the value of that
\* key, any other object a one-element array holding it, and every other value
\* makes the result the empty list.
C4_CandidatesByShape ==
    (GenReturned /\ gen.parsed # <<>>) =>
        LET p == gen.parsed[1]
            c == gen.test_cases[1]
        IN /\ p.kind = "arr" => c.kind = "arr" /\ c.items = p.items
           /\ HasKey(p, "test_cases") \/ HasKey(p, "testCases") =>
                \/ HasKey(p, "test_cases") /\ c = p.test_cases[1]
                \/ HasKey(p, "testCases") /\ c = p.testCases[1]
           /\ (p.kind = "obj" /\ ~HasKey(p, "test_cases") /\ ~HasKey(p, "testCases")) =>
                c = JsonArr(<<p>>)
           /\ p.kind \notin {"arr", "obj"} => gen.out = Returned(<<>>)

\* C4's case: records wrapped under testCases alone are the candidates.
C4_Witness ==
    /\ GenReturned
    /\ gen.parsed # <<>>
    /\ HasKey(gen.parsed[1], "testCases")
    /\ ~HasKey(gen.parsed[1], "test_cases")
    /\ gen.out.value = <<TcA, TcB>>

(***************************************************************************)
(* Claims about DocumentIngestion, checked under SpecIngest and SpecParse. *)
(***************************************************************************)
\* C5: over any sequence of files ingested by one instance all chunk_ids are
\* pairwise distinct, each is '<document stem>_<counter>', and the counter
\* strictly increases from one chunk to the next, across documents.
C5_ChunkIdsDistinct ==
    /\ \A i \in DOMAIN ing.issued :
          ing.issued[i].chunk_id =
              stem(ing.issued[i].source_document) \o <<"_">>
                  \o Digits(ing.issued[i].counter)
    /\ \A i, j \in DOMAIN ing.issued :
          i < j => /\ ing.issued[i].chunk_id # ing.issued[j].chunk_id
                   /\ ing.issued[i].counter < ing.issued[j].counter

\* C5's case: two documents with the stem 'a' and one with the stem 'a_1'.
C5_Witness ==
    \E i, j, k \in DOMAIN ing.issued :
        /\ i < j /\ j < k
        /\ ing.issued[i].source_document = FnA
        /\ ing.issued[j].source_document = FnAJson
        /\ ing.issued[k].source_document = FnA1
        /\ ing.issued[i].chunk_id = <<"a", "_", "1">>
        /\ ing.issued[k].chunk_id = <<"a", "_", "1", "_", "4">>

\* Whether the file fails at some stage, told from the file alone.
ExpectedToFail(f) ==
    \/ parse_document(f.content, f.filename).raised
    \/ f.fault = "split"
    \/ f.fault = "embed" /\ f.content.pieces > 0

RECURSIVE SumChunks(_)
SumChunks(fp) == IF fp = <<>> THEN 0 ELSE Head(fp).chunks + SumChunks(Tail(fp))

\* C6: a file that fails, at whichever stage, does not end the batch: the call
\* returns, files_processed holds one entry per input file in input order, the
\* failed file's entry is a {filename, error} record, and the files after it
\* are parsed, chunked and stored.
C6_FailuresIsolated ==
    ing.pc = "returned" =>
        LET files == ing.uploaded_files
            fp == ing.stats.files_processed
        IN /\ ~ing.raised
           /\ Len(fp) = Len(files)
           /\ \A i \in DOMAIN fp :
                /\ fp[i].filename = files[i].filename
                /\ ExpectedToFail(files[i]) =>
                      fp[i].keys = {"filename", "error"} /\ fp[i].error # ""
                /\ ~ExpectedToFail(files[i]) =>
                      /\ fp[i].keys = {"filename", "doc_type", "chunks"}
                      /\ fp[i].chunks = files[i].content.pieces
           /\ Cardinality(DOMAIN ing.entries) =
                 Cardinality(DOMAIN ing.before) + SumChunks(fp)

\* C6's case: the first file fails to parse, the second is stored.
C6_Witness ==
    /\ ing.pc = "returned"
    /\ Len(ing.uploaded_files) = 3
    /\ ing.stats.files_processed[1].keys = {"filename", "error"}
    /\ ing.stats.files_processed[2].chunks = 2
    /\ ing.stats.files_processed[3].error = "split_text failed"
    /\ Cardinality(DOMAIN ing.entries) = 2

SupportedExtensions ==
    {<<".", "p", "d", "f">>, <<".", "m", "d">>, <<".", "t", "x", "t">>,
     <<".", "j", "s", "o", "n">>, <<".", "h", "t", "m", "l">>,
     <<".", "h", "t", "m">>}

\* C7: parse_document returns a (text, doc_type) pair without raising for
\* every byte content whenever the filename has a supported extension; bytes
\* that are not valid UTF-8 and malformed JSON come back as fallback text.
C7_ParseNeverRaises ==
    (parse.pc = "returned" /\ lower(suffix(parse.filename)) \in SupportedExtensions)
        => ~parse.out.raised

(***************************************************************************)
(* Script synthesis                                                        *)
(***************************************************************************)
ScriptReturned == scr.pc # "unused" /\ scr.idx > 0

\* C8: generate_script never raises and never returns an empty text,
\* whatever the two retrievals and the backend do; when the backend fails
\* the text is the fallback script, which holds nothing the backend wrote.
C8_GenerateScriptIsTotal ==
    ScriptReturned =>
        /\ ~scr.last.out.raised
        /\ scr.last.out.text # <<>>
        /\ scr.last.backend.fails =>
              scr.last.out.text =
                  error_script(scr.last.test_case[1], scr.last.backend.error)

Positions(ev) == {i \in DOMAIN scr.events : scr.events[i].ev = ev}

\* the loop positions begun, in the order they were begun
Begun == SelectSeq(scr.events, LAMBDA e : e.ev = "begin")

\* C9: the selected test cases are taken one at a time in list order; a
\* pacing delay lies between any two backend calls of the run, also when
\* the synthesis of some test case fails; no delay follows the last test
\* case.
C9_PacedInOrder ==
    scr.pc # "unused" =>
        /\ \A k \in DOMAIN Begun : Begun[k].idx = k - 1
        /\ \A i, j \in DOMAIN scr.events :
              i < j => scr.events[i].idx <= scr.events[j].idx
        /\ \A i, j \in Positions("backend_call") :
              i < j => \E k \in Positions("sleep") : i < k /\ k < j
        /\ \A k \in Positions("sleep") :
              scr.events[k].idx < Len(scr.selected) - 1

\* A run of three test cases ends: the first and the third reached the
\* backend, the second failed before it, and the run waited once between
\* the two calls.
C9_Witness ==
    /\ scr.pc = "done"
    /\ Len(scr.selected) = 3
    /\ {scr.events[i].idx : i \in Positions("backend_call")} = {0, 2}
    /\ {scr.events[i].idx : i \in Positions("sleep")} = {0}

(***************************************************************************)
(* The store's entries                                                     *)
(***************************************************************************)
Holds(entries, e) == \E i \in DOMAIN entries : entries[i] = e

\* C10: an entry of the store keeps its id, its text and its metadata and
\* stays in the store through every operation but a reset of the whole
\* store (the Reset KB button, or the reset a build starts with);
\* retrieval with generation, and synthesis, leave the entries as they were.
C10_EntriesImmutable ==
    kb.ops > 0 =>
        /\ kb.op \notin {"reset", "build"} =>
              \A i \in DOMAIN kb.before : Holds(kb.entries, kb.before[i])
        /\ kb.op \in {"retrieve", "generate", "synthesize"} =>
              kb.entries = kb.before

\* An ingestion into a store that held entries was handed a chunk whose id
\* the store held already, and stored another chunk.
C10_Witness ==
    /\ kb.op = "ingest"
    /\ kb.before # <<>>
    /\ Len(kb.entries) > Len(kb.before)
    /\ kb.stats.total_chunks > Len(kb.entries) - Len(kb.before)

\* C11: a reset leaves the store empty and never raises, whether the store
\* held entries, was empty or was never created, and a second reset leaves
\* what the first left; this holds for the Reset KB button and for
\* DocumentIngestion(reset=True).
C11_ResetIdempotent ==
    kb.pc # "unused" =>
        LET r1 == reset_kb(CurrentStore)
            r2 == reset_kb(r1.store)
            i1 == ingestion_init(CurrentStore, TRUE)
            i2 == ingestion_init(i1, TRUE)
        IN /\ ~r1.raised /\ r1.store.entries = <<>>
           /\ ~r2.raised /\ r2.store = r1.store
           /\ i1.entries = <<>> /\ i2 = i1
           /\ kb.op = "reset" =>
                 ~kb.raised /\ kb.entries = <<>> /\ ~kb.present

\* Reset KB was pressed twice in a row; the second found no collection.
C11_Witness ==
    kb.op = "reset" /\ kb.prev = "reset" /\ kb.warned /\ kb.entries = <<>>

\* A file whose text the splitter cuts into no chunk.
YieldsNoChunks(f) ==
    /\ ~parse_document(f.content, f.filename).raised
    /\ f.fault # "split"
    /\ f.content.pieces = 0

\* C12: embed_and_store on an empty chunk list returns 0, raises nothing and
\* leaves the store as it is, without calling the embedding or the store; a
\* document that yields no chunks is recorded as a processed file with 0
\* chunks, and a batch of such documents leaves the store unchanged.
C12_EmptyAddIsNoOp ==
    /\ \A fault \in {"none", "embed"}, d \in {"raise", "skip"} :
          embed_and_store(ing.entries, <<>>, fault, d) =
              [raised |-> FALSE, exc |-> "", entries |-> ing.entries,
               stored |-> 0]
    /\ ing.pc = "returned" =>
          LET files == ing.uploaded_files
              fp == ing.stats.files_processed
          IN /\ \A i \in DOMAIN files :
                   YieldsNoChunks(files[i]) =>
                      /\ i \in DOMAIN fp
                      /\ fp[i] =
                           Processed(files[i].filename,
                                     parse_document(files[i].content,
                                                    files[i].filename).doc_type,
                                     0)
             /\ (\A i \in DOMAIN files : YieldsNoChunks(files[i])) =>
                   ing.entries = ing.before

\* A store with entries was handed only documents without chunks, one of them
\* with an embedding model that would have raised.
C12_Witness ==
    /\ ing.pc = "returned"
    /\ ing.before # <<>>
    /\ ing.uploaded_files # <<>>
    /\ \A i \in DOMAIN ing.uploaded_files : YieldsNoChunks(ing.uploaded_files[i])
    /\ \E i \in DOMAIN ing.uploaded_files : ing.uploaded_files[i].fault = "embed"
    /\ ing.stats.total_files = Len(ing.uploaded_files)
    /\ ing.stats.total_chunks = 0

(***************************************************************************)
(* Retrieval                                                               *)
(***************************************************************************)
Min(a, b) == IF a < b THEN a ELSE b

\* the entry a chunk was made from
IsChunkOf(c, e, query) ==
    /\ c.text = e.text
    /\ c.metadata = e.metadata
    /\ c.distance = Distance(query, e.text)

\* C13: retrieve_context(query, k) returns min(k, number of entries) chunks:
\* the entries nearest to the query, in ascending order of distance, each
\* with the text, the metadata and the distance of one and the same entry.
C13_NearestFirst ==
    kb.op \in {"retrieve", "generate"} =>
        LET r == kb.retrieved
            es == kb.entries
        IN /\ Len(r) = Min(kb.top_k, Len(es))
           /\ \A i, j \in DOMAIN r : i < j => r[i].distance <= r[j].distance
           /\ \E f \in [DOMAIN r -> DOMAIN es] :
                /\ \A i, j \in DOMAIN r : i # j => f[i] # f[j]
                /\ \A i \in DOMAIN r : IsChunkOf(r[i], es[f[i]], kb.query)
                /\ \A n \in DOMAIN es :
                      (\A i \in DOMAIN r : f[i] # n) =>
                          \A i \in DOMAIN r :
                              r[i].distance <= Distance(kb.query, es[n].text)

\* Three entries at three distances, the nearest stored last; top_k = 2
\* returns the two nearest, nearest first, and leaves the farthest out.
C13_Witness ==
    /\ kb.op = "retrieve"
    /\ kb.top_k = 2
    /\ Len(kb.entries) = 3
    /\ Distance(kb.query, kb.entries[1].text) = 1
    /\ Distance(kb.query, kb.entries[2].text) = 2
    /\ Distance(kb.query, kb.entries[3].text) = 0
    /\ Len(kb.retrieved) = 2
    /\ kb.retrieved[1].text = kb.entries[3].text
    /\ kb.retrieved[2].text = kb.entries[1].text

(***************************************************************************)
(* parse_document's doc_type                                               *)
(***************************************************************************)
\* the doc_type a filename stands for
DocTypeOf(filename) ==
    LET ext == lower(suffix(filename))
        name == lower(filename)
    IN IF ext \in {<<".", "p", "d", "f">>, <<".", "m", "d">>} THEN "spec"
       ELSE IF ext = <<".", "t", "x", "t">>
       THEN (IF \E i \in 1..(Len(name) - 1) :
                    name[i] = "u" /\ name[i + 1] \in {"i", "x"}
             THEN "ui_ux" ELSE "spec")
       ELSE IF ext = <<".", "j", "s", "o", "n">> THEN "api"
       ELSE IF ext \in {<<".", "h", "t", "m", "l">>, <<".", "h", "t", "m">>}
       THEN "html_dom"
       ELSE "spec"

\* C14: the doc_type parse_document returns is a function of the filename
\* alone: spec for .pdf and .md, ui_ux for a .txt whose lower-cased name
\* contains 'ui' or 'ux' and spec for any other .txt, api for .json,
\* html_dom for .html and .htm, spec for every other extension; every
\* content that parses under the same filename gets the same doc_type.
C14_DocTypeFromFilename ==
    (parse.pc = "returned" /\ ~parse.out.raised) =>
        /\ parse.out.doc_type = DocTypeOf(parse.filename)
        /\ \A c \in Contents :
              LET o == parse_document(c, parse.filename)
              IN ~o.raised => o.doc_type = parse.out.doc_type

\* UX.TXT was parsed: an upper-case name and extension, tagged ui_ux.
C14_Witness ==
    /\ parse.pc = "returned"
    /\ ~parse.out.raised
    /\ parse.filename = <<"U", "X", ".", "T", "X", "T">>
    /\ parse.content.pieces > 0
    /\ parse.out.doc_type = "ui_ux"

(***************************************************************************)
(* _flatten_json                                                           *)
(***************************************************************************)
\* the path of a child: a key after a dot (no dot after an empty path), an
\* index in brackets
PathTo(data, path, i) ==
    IF data.t = "dict"
    THEN (IF path # "" THEN path \o "." \o data.kids[i].key
          ELSE data.kids[i].key)
    ELSE path \o "[" \o ToString(i - 1) \o "]"

\* one 'path: value' line per scalar leaf, depth first, in input order
RECURSIVE LeafLines(_, _)
LeafLines(data, path) ==
    Concat([i \in DOMAIN data.kids |->
              IF IsContainer(data.kids[i].value)
              THEN LeafLines(data.kids[i].value, PathTo(data, path, i))
              ELSE <<PathTo(data, path, i) \o ": " \o str(data.kids[i].value)>>])

\* one 'path:' line per dict member that is a dict or a list, depth first
RECURSIVE HeaderLines(_, _)
HeaderLines(data, path) ==
    Concat([i \in DOMAIN data.kids |->
              IF IsContainer(data.kids[i].value)
              THEN (IF data.t = "dict"
                    THEN <<PathTo(data, path, i) \o ":">> ELSE <<>>)
                      \o HeaderLines(data.kids[i].value, PathTo(data, path, i))
              ELSE <<>>])

\* the dicts and lists without children inside a document
RECURSIVE EmptyInside(_)
EmptyInside(data) ==
    Len(Concat([i \in DOMAIN data.kids |->
                  IF ~IsContainer(data.kids[i].value) THEN <<>>
                  ELSE IF data.kids[i].value.kids = <<>> THEN <<1>>
                  ELSE [k \in 1..EmptyInside(data.kids[i].value) |-> 1]]))

FlatA1 == PyDict(<<Member("a", PyScalar("1"))>>)

\* C15 as stated: the flattened text of a JSON object or array consists
\* only of 'path: value' lines, one per scalar leaf, depth first in input
\* order, with dotted keys and bracketed indices; {"a": 1} gives 'a: 1'.
C15_OnlyLeafLines ==
    /\ flatten_json(FlatA1, "") = <<"a: 1">>
    /\ helper.pc = "returned" =>
          helper.out = JoinLines(LeafLines(helper.arg, ""))

\* C15 amended: the 'path: value' lines of the flattened text are one per
\* scalar leaf, depth first in input order; besides them the text holds a
\* 'path:' line for every dict member that is a dict or a list, depth
\* first, and an empty line for every empty dict or list inside the
\* document (an empty document flattens to the empty text); {"a": 1} gives
\* 'a: 1'.
C15_LeafLinesAndHeaders ==
    /\ flatten_json(FlatA1, "") = <<"a: 1">>
    /\ helper.pc = "returned" =>
          LET headers == HeaderLines(helper.arg, "")
              leaves == LeafLines(helper.arg, "")
              out == IF helper.arg.kids = <<>> THEN <<>> ELSE helper.out
          IN /\ SelectSeq(out, LAMBDA l : l \in Range(leaves)) = leaves
             /\ SelectSeq(out, LAMBDA l : l \in Range(headers)) = headers
             /\ Len(SelectSeq(out, LAMBDA l : l = "")) = EmptyInside(helper.arg)
             /\ Len(out) = Len(leaves) + Len(headers) + EmptyInside(helper.arg)
             /\ helper.arg.kids = <<>> => helper.out = <<"">>

\* {"a": {"a": 1, "": true}, "": true} was flattened.
C15_Witness ==
    /\ helper.pc = "returned"
    /\ helper.arg.t = "dict"
    /\ helper.out = <<"a:", "a.a: 1", "a.: True", ": True">>

(***************************************************************************)
(* The selector extractor                                                  *)
(***************************************************************************)
In(bucket, e) ==
    \E i \in DOMAIN helper.out.selectors_data.semantic[bucket] :
        helper.out.selectors_data.semantic[bucket][i] = ElementInfo(e)

\* whether an element meets the condition of a bucket
Meets(e, bucket) ==
    LET text == lower(e.text)
        attrs == lower(e.id) \o lower(e.name) \o lower(JoinSpace(e.class))
    IN CASE bucket = "buttons" -> IsButton(e)
         [] bucket = "inputs" -> IsInput(e)
         [] bucket = "forms" -> e.tag = "form"
         [] bucket = "cart_elements" ->
                AnyIn(text, CART_TEXT) \/ AnyIn(attrs, CART_ATTR)
         [] bucket = "payment_elements" ->
                AnyIn(text, PAYMENT_TEXT) \/ AnyIn(attrs, PAYMENT_ATTR)
         [] bucket = "shipping_elements" ->
                AnyIn(text, SHIPPING_TEXT) \/ AnyIn(attrs, SHIPPING_ATTR)
         [] bucket = "discount_elements" ->
                AnyIn(text, DISCOUNT_TEXT) \/ AnyIn(attrs, DISCOUNT_ATTR)
         [] OTHER -> AnyIn(lower(JoinSpace(e.class)), VALIDATION_CLASS)

\* C16: every bucket's condition is evaluated for every element on its own,
\* so an element is in every bucket whose condition it meets; the button
\* <button id="pay-btn" class="cart-btn">Pay</button> has the selectors
\* #pay-btn and .cart-btn and is in buttons, payment_elements and
\* cart_elements.
C16_BucketsNotExclusive ==
    helper.pc = "returned" =>
        /\ \A i \in DOMAIN helper.arg, b \in BucketNames :
              In(b, helper.arg[i]) <=> Meets(helper.arg[i], b)
        /\ (\E i \in DOMAIN helper.arg : helper.arg[i] = PayButton) =>
              /\ IdSelector(PayButton.id)
                    \in Range(helper.out.selectors_data.all_selectors)
              /\ ClassSelector(PayButton.class[1])
                    \in Range(helper.out.selectors_data.all_selectors)
              /\ In("buttons", PayButton)
              /\ In("payment_elements", PayButton)
              /\ In("cart_elements", PayButton)

\* The page held the button and a plain div: the button is in three buckets,
\* the div in none.
C16_Witness ==
    /\ helper.pc = "returned"
    /\ helper.arg = <<PlainDiv, PayButton>>
    /\ In("buttons", PayButton) /\ In("payment_elements", PayButton)
    /\ In("cart_elements", PayButton)
    /\ \A b \in BucketNames : ~In(b, PlainDiv)

SectionHeaders ==
    <<<<"\n--- Buttons ---">>, <<"\n--- Input Fields ---">>,
      <<"\n--- Cart Elements ---">>, <<"\n--- Payment Elements ---">>,
      <<"\n--- Shipping Elements ---">>, <<"\n--- Discount Elements ---">>>>

SectionBuckets ==
    <<"buttons", "inputs", "cart_elements", "payment_elements",
      "shipping_elements", "discount_elements">>

\* where the k-th section's header stands in the text, and where it ends
HeaderAt(text, k) == CHOOSE i \in DOMAIN text : text[i] = SectionHeaders[k]
SectionEnd(text, k) ==
    IF k = Len(SectionHeaders) THEN Len(text) ELSE HeaderAt(text, k + 1) - 1

\* the bucket's entries follow the page's order
RECURSIVE InDocumentOrder(_, _)
InDocumentOrder(bucket, page) ==
    IF bucket = <<>> THEN TRUE
    ELSE IF page = <<>> THEN FALSE
    ELSE IF Head(bucket) = ElementInfo(Head(page))
    THEN InDocumentOrder(Tail(bucket), page)
    ELSE InDocumentOrder(bucket, Tail(page))

\* C20: the text format_for_storage gives for a page is the same whatever
\* order the deduplicated selector set came out in; its sections stand in
\* the order Buttons, Input Fields, Cart, Payment, Shipping, Discount, each
\* with its elements in document order, one line per entry, the element's
\* selectors in the order id, name, classes, data-test.
C20_FormatDeterministic ==
    helper.pc = "returned" =>
        LET text == helper.out.selector_text
            data == helper.out.selectors_data
        IN /\ \A o \in SetOrders(data.all_selectors) :
                 format_for_storage([data EXCEPT !.all_selectors = o]) = text
           /\ \A k \in DOMAIN SectionHeaders :
                 /\ \E i \in DOMAIN text : text[i] = SectionHeaders[k]
                 /\ k > 1 => HeaderAt(text, k - 1) < HeaderAt(text, k)
                 /\ SubSeq(text, HeaderAt(text, k) + 1, SectionEnd(text, k)) =
                        ElementLines(data.semantic[SectionBuckets[k]])
                 /\ InDocumentOrder(data.semantic[SectionBuckets[k]],
                                    helper.arg)

\* Two buttons with the same id: the set holds two selectors, and came out
\* with the class before the id.
C20_Witness ==
    /\ helper.pc = "returned"
    /\ helper.arg = <<CartButton, PayButton>>
    /\ helper.out.selectors_data.all_selectors =
          <<ClassSelector(PayButton.class[1]), IdSelector(PayButton.id)>>
    /\ helper.out.selector_text[2] = <<"Total unique selectors: ", "2", "\n">>
    /\ helper.out.selector_text[4] =
          <<"  ", "button", ": ", "#", "p", "a", "y", "-", "b", "t", "n">>

(***************************************************************************)
(* Chunking                                                                *)
(***************************************************************************)
\* C17: the chunks of a document, each after the first without the 120
\* characters it shares with the chunk before it, concatenated in
\* chunk_index order give back the text handed to the splitter, and no
\* chunk is longer than 550 characters.
C17_ChunkingRoundTrip ==
    (helper.pc = "returned" /\ helper.arg # <<>>) =>
        LET chunks == helper.out.chunks
        IN /\ chunks # <<>>
           /\ chunks[1].start = 1
           /\ chunks[Len(chunks)].end = TextLen(helper.arg)
           /\ \A i \in DOMAIN chunks :
                 /\ chunks[i].end - chunks[i].start + 1 <= CHUNK_SIZE
                 /\ i > 1 => chunks[i].start + CHUNK_OVERLAP
                                = chunks[i - 1].end + 1

(***************************************************************************)
(* Fenced responses                                                        *)
(***************************************************************************)
\* a response that is one fenced block: ``` or ```json, the content, ```
IsFenced(text) ==
    /\ Len(text) >= 2
    /\ text[1].seg \in {"fence", "fence_json"}
    /\ text[Len(text)].seg = "fence"
    /\ \A i \in 2..(Len(text) - 1) : text[i].seg \in {"ws", "doc"}

\* the content between the fences
Unfenced(text) == Strip(SubSeq(text, 2, Len(text) - 1))

\* C18: a response wrapped in a fenced block, with or without the json tag,
\* gives the list of test cases its content gives without the wrapper; a
\* fenced array of one valid record gives exactly one test case.
C18_FencedAsUnfenced ==
    (GenReturned /\ ~gen.backend.fails /\ IsFenced(gen.backend.text)) =>
        /\ gen.out =
              generate_test_cases(
                  gen.user_query, gen.retrieved_chunks,
                  [gen.backend EXCEPT !.text = Unfenced(@)]).out
        /\ \A tc \in {TcA, TcFence} :
              Unfenced(gen.backend.text) = <<DocSeg(JsonArr(<<tc>>))>> =>
                  ~gen.out.raised /\ Len(gen.out.value) = 1

(***************************************************************************)
(* The two retrievals of a script                                          *)
(***************************************************************************)
StoreQueriesOf(events) == SelectSeq(events, LAMBDA e : e.ev = "query")

\* the texts of the collection's entries of a doc_type
TextsOf(collection, doc_type) ==
    {collection.entries[i].text :
        i \in {j \in DOMAIN collection.entries :
                  collection.entries[j].metadata.doc_type = doc_type}}

\* C19: a generate_script call against a store that is there and answers
\* makes exactly two store queries, both before the backend call: the first
\* with the fixed selector query, whatever the test case, restricted to
\* doc_type html_dom and asking for 5 entries, so the selector evidence is at
\* most 5 chunks, all of html_dom; the second with the test case's Feature
\* and Test_Scenario, unrestricted, asking for 3 entries, so the document
\* evidence is at most 3 chunks.
C19_TwoRetrievals ==
    (ScriptReturned /\ scr.collection.present /\ scr.last.faults = NoFaults) =>
        LET out == scr.last.out
            tc == scr.last.test_case[1]
            events == [i \in DOMAIN out.events |->
                          [out.events[i] EXCEPT !.idx = 0]]
        IN /\ ~out.raised
           /\ Len(events) = 3
           /\ Len(StoreQueriesOf(events)) = 2
           /\ events[1] = QueryEvent(SELECTOR_QUERY, 5, "html_dom")
           /\ events[2] = QueryEvent(<<tc.Feature>> \o tc.Test_Scenario, 3, "")
           /\ events[3] = Event("backend_call")
           /\ Len(out.html_selectors) <= 5
           /\ Range(out.html_selectors)
                 \subseteq TextsOf(scr.collection, "html_dom")
           /\ Len(out.relevant_docs) <= 3
           /\ \A i \in DOMAIN out.relevant_docs :
                 \E j \in DOMAIN scr.collection.entries :
                     out.relevant_docs[i] =
                         <<scr.collection.entries[j].metadata.source_document,
                           scr.collection.entries[j].text>>

\* A script is written against the large collection: the selector evidence
\* is 5 of its 6 page chunks, the document evidence 3 of its 10 chunks.
C19_Witness ==
    /\ ScriptReturned
    /\ scr.collection = LargeCollection
    /\ scr.last.faults = NoFaults
    /\ Len(scr.last.out.html_selectors) = 5
    /\ Len(scr.last.out.relevant_docs) = 3
    /\ \E i \in DOMAIN scr.last.out.relevant_docs :
          scr.last.out.relevant_docs[i][2]
              \notin TextsOf(scr.collection, "html_dom")

(***************************************************************************)
(* Requests to the backend                                                 *)
(***************************************************************************)
\* C21: a generate_test_cases call and a generate_script call each ask the
\* backend at most once; a failed request is not repeated within the call,
\* it is reported: by the one diagnostic record, or by the fallback script.
C21_NoRetry ==
    (kb.pc # "unused" /\ kb.op \in {"generate", "synthesize"}) =>
        /\ kb.backend_calls <= 1
        /\ kb.backend[1].fails =>
              /\ kb.backend_calls = 1
              /\ kb.op = "generate" =>
                    kb.returned =
                        <<GenerationErrorCase(kb.backend[1].error)>>
              /\ kb.op = "synthesize" =>
                    kb.returned = error_script(TcA, kb.backend[1].error)

\* A failed request of each kind, one after the other.
C21_Witness ==
    /\ kb.op = "synthesize" /\ kb.prev = "generate"
    /\ kb.backend[1].fails
    /\ kb.backend_calls = 1
    /\ kb.returned = error_script(TcA, kb.backend[1].error)

(***************************************************************************)
(* The chunks of one document                                              *)
(***************************************************************************)
\* C22: the chunks one chunk_text call returns carry chunk_index 0, 1, ...,
\* n-1 in order and the source_document and doc_type the call was given;
\* chunk_index starts at 0 again for every document, while the counter of
\* chunk_id goes on from where the document before left it.
C22_ChunkIndexPerDocument ==
    ing.pc = "returned" =>
        LET calls == ing.chunk_calls
        IN /\ \A j \in DOMAIN calls :
                 \A k \in DOMAIN calls[j].chunks :
                     LET c == calls[j].chunks[k]
                     IN /\ c.chunk_index = k - 1
                        /\ c.source_document = calls[j].source_document
                        /\ c.doc_type = calls[j].doc_type
                        /\ c.chunk_id =
                              stem(calls[j].source_document) \o <<"_">>
                                  \o Digits(calls[j].chunk_counter + k)
           /\ \A j \in DOMAIN calls :
                 j > 1 => calls[j].chunk_counter =
                              calls[j - 1].chunk_counter
                                  + Len(calls[j - 1].chunks)
           /\ calls # <<>> =>
                 calls[Len(calls)].chunk_counter
                     + Len(calls[Len(calls)].chunks) = ing.chunk_counter

\* Two documents of two chunks each are chunked by an instance that had
\* issued chunks before: the second starts at index 0 again and its ids go
\* on from the first's.
C22_Witness ==
    /\ ing.pc = "returned"
    /\ Len(ing.chunk_calls) = 2
    /\ ing.chunk_calls[1].chunk_counter = 1
    /\ Len(ing.chunk_calls[1].chunks) = 2
    /\ Len(ing.chunk_calls[2].chunks) = 2
    /\ ing.chunk_calls[2].chunks[1].chunk_index = 0
    /\ ing.chunk_calls[2].chunks[2].chunk_id = <<"a", "_", "5">>

(***************************************************************************)
(* The selectors of an element                                             *)
(***************************************************************************)
\* the entries every bucket holds
Recorded(data) ==
    UNION {Range(data.semantic[b]) : b \in BucketNames}

\* C23: an element's selector list is '#<id>' if it has an id, then
\* "[name='<name>']" if it has a name, then one '.<token>' per class token in
\* attribute order, then "[data-test='<value>']" if it has a data-test;
\* an absent attribute gives nothing, and no other attribute gives a
\* selector.
C23_SelectorsPerElement ==
    helper.pc = "returned" =>
        /\ \A i \in DOMAIN helper.arg :
              LET e == helper.arg[i]
                  expected ==
                      (IF e.id = <<>> THEN <<>> ELSE <<<<"#">> \o e.id>>)
                          \o (IF e.name = <<>> THEN <<>>
                              ELSE <<<<"[name='">> \o e.name \o <<"']">>>>)
                          \o [k \in 1..Len(e.class) |-> <<".">> \o e.class[k]]
                          \o (IF e.data_test = <<>> THEN <<>>
                              ELSE <<<<"[data-test='">> \o e.data_test
                                        \o <<"']">>>>)
              IN ElementInfo(e).selectors = expected
        /\ \A info \in Recorded(helper.out.selectors_data) :
              \E i \in DOMAIN helper.arg : info = ElementInfo(helper.arg[i])
        /\ (\E i \in DOMAIN helper.arg : helper.arg[i] = FullInput) =>
              \E info \in Range(helper.out.selectors_data.semantic["inputs"]) :
                  info.selectors =
                      <<<<"#", "Q", "t", "y">>,
                        <<"[name='", "q", "t", "y", "']">>,
                        <<".", "p", "r", "o", "m", "o">>,
                        <<".", "p", "r", "o", "m", "o">>,
                        <<"[data-test='", "a", "p", "p", "l", "y", "']">>>>

\* The page holds the input with every attribute and the div with two
\* classes and nothing else.
C23_Witness ==
    /\ helper.pc = "returned"
    /\ helper.arg = <<FullInput, PromoDiv>>
    /\ Len(helper.out.selectors_data.semantic["inputs"][1].selectors) = 5
    /\ helper.out.selectors_data.semantic["validation_elements"][1].selectors =
          <<<<".", "e", "r", "r", "o", "r">>, <<".", "p", "r", "o", "m", "o">>>>

\* C24: all_selectors holds no string twice and holds, as a set, exactly
\* the selectors of the elements' lists; strings that differ only in case
\* are both kept; an element's own list keeps its duplicates, so a class
\* token written twice gives its class selector twice.
C24_FlatSetDeduplicated ==
    helper.pc = "returned" =>
        LET all == helper.out.selectors_data.all_selectors
            lists == {ElementInfo(helper.arg[i]).selectors :
                         i \in DOMAIN helper.arg}
        IN /\ \A i, j \in DOMAIN all : i # j => all[i] # all[j]
           /\ Range(all) = UNION {Range(l) : l \in lists}
           /\ Range(helper.arg) = {ShippingSelect, LowerShipping} =>
                 /\ <<"#", "S", "h", "i", "p", "p", "i", "n", "g">> \in Range(all)
                 /\ <<"#", "s", "h", "i", "p", "p", "i", "n", "g">> \in Range(all)
                 /\ Len(all) = 2
           /\ (\E i \in DOMAIN helper.arg : helper.arg[i] = FullInput) =>
                 \E info \in Recorded(helper.out.selectors_data) :
                     /\ Len(info.selectors) = 5
                     /\ info.selectors[3] = <<".", "p", "r", "o", "m", "o">>
                     /\ info.selectors[4] = <<".", "p", "r", "o", "m", "o">>
                     /\ Cardinality({i \in DOMAIN all : all[i] = info.selectors[3]})
                           = 1

\* The input with the class token written twice stands on a page with a div
\* of the same class: the element's list holds five selectors, the flat set
\* five, the class selector once.
C24_Witness ==
    /\ helper.pc = "returned"
    /\ helper.arg = <<FullInput, PromoDiv>>
    /\ Len(helper.out.selectors_data.semantic["inputs"][1].selectors) = 5
    /\ Len(helper.out.selectors_data.by_type.classes) = 4
    /\ Len(helper.out.selectors_data.all_selectors) = 5

(***************************************************************************)
(* How often a bucket records an element                                   *)
(***************************************************************************)
TextKeywords(bucket) ==
    CASE bucket = "cart_elements" -> CART_TEXT
      [] bucket = "payment_elements" -> PAYMENT_TEXT
      [] bucket = "shipping_elements" -> SHIPPING_TEXT
      [] bucket = "discount_elements" -> DISCOUNT_TEXT

AttrKeywords(bucket) ==
    CASE bucket = "cart_elements" -> CART_ATTR
      [] bucket = "payment_elements" -> PAYMENT_ATTR
      [] bucket = "shipping_elements" -> SHIPPING_ATTR
      [] bucket = "discount_elements" -> DISCOUNT_ATTR

\* the number of the bucket's checks that fire for the element
Fires(e, bucket) ==
    CASE bucket = "buttons" -> IF IsButton(e) THEN 1 ELSE 0
      [] bucket = "inputs" -> IF IsInput(e) THEN 1 ELSE 0
      [] bucket = "forms" -> IF e.tag = "form" THEN 1 ELSE 0
      [] bucket = "validation_elements" ->
            IF \E k \in DOMAIN e.class :
                  AnyIn(lower(e.class[k]), VALIDATION_CLASS)
            THEN 1 ELSE 0
      [] OTHER ->
            (IF AnyIn(lower(e.text), TextKeywords(bucket)) THEN 1 ELSE 0)
              + (IF AnyIn(lower(e.id) \o lower(e.name)
                              \o lower(JoinSpace(e.class)),
                          AttrKeywords(bucket))
                 THEN 1 ELSE 0)

\* the checks of the bucket that fire, summed over the page's elements
\* recorded as one of infos
RECURSIVE SumFires(_, _, _)
SumFires(page, bucket, infos) ==
    IF page = <<>> THEN 0
    ELSE (IF ElementInfo(Head(page)) \in infos
          THEN Fires(Head(page), bucket) ELSE 0)
            + SumFires(Tail(page), bucket, infos)

\* the number of times the bucket holds the entry
Occurs(bucket, info) ==
    Cardinality({k \in DOMAIN bucket : bucket[k] = info})

\* C25: a cart, payment, shipping or discount bucket records an element as
\* many times as checks of the bucket fire for it (the keyword match in its
\* text, the keyword match in its id, name and class tokens put together):
\* 0, 1 or 2 times.  buttons, inputs, forms and validation record an element
\* at most once, validation only for a class token that holds error, invalid
\* or validation.
C25_BucketCounts ==
    helper.pc = "returned" =>
        LET page == helper.arg
            semantic == helper.out.selectors_data.semantic
        IN /\ \A b \in BucketNames :
                /\ \A i \in DOMAIN page :
                      /\ Fires(page[i], b) \in
                             (IF b \in {"buttons", "inputs", "forms",
                                        "validation_elements"}
                              THEN {0, 1} ELSE {0, 1, 2})
                      /\ Occurs(semantic[b], ElementInfo(page[i])) =
                             SumFires(page, b, {ElementInfo(page[i])})
                /\ Len(semantic[b]) =
                      SumFires(page, b, {ElementInfo(page[i]) :
                                            i \in DOMAIN page})
           /\ page = <<ErrorIdDiv>> =>
                 /\ semantic["validation_elements"] = <<>>
                 /\ Len(semantic["discount_elements"]) = 1
           /\ page = <<SplitTotalArea>> =>
                 Len(semantic["cart_elements"]) = 1

\* The button whose text and whose id both say "pay" is twice among the
\* payment elements and once, for its class, among the cart elements; the
\* input beside it is once among the cart and the discount elements.
C25_Witness ==
    /\ helper.pc = "returned"
    /\ helper.arg = <<PayButton, FullInput>>
    /\ helper.out.selectors_data.semantic["payment_elements"] =
          <<ElementInfo(PayButton), ElementInfo(PayButton)>>
    /\ helper.out.selectors_data.semantic["cart_elements"] =
          <<ElementInfo(PayButton), ElementInfo(FullInput)>>
    /\ helper.out.selectors_data.semantic["discount_elements"] =
          <<ElementInfo(FullInput)>>
    /\ helper.out.selectors_data.semantic["buttons"] = <<ElementInfo(PayButton)>>

(***************************************************************************)
(* The compiled context                                                    *)
(***************************************************************************)
\* C26: compile_context renders the chunks in the order given: the i-th
\* chunk, counting from 1, is the i-th block, labelled Source i with the
\* chunk's source_document and doc_type and followed by its text; the same
\* delimiter line stands between any two consecutive blocks; no chunks
\* compile to the empty string.
C26_ContextInRankOrder ==
    (kb.pc # "unused" /\ kb.op = "generate") =>
        LET chunks == kb.retrieved
            n == Len(chunks)
        IN /\ n = 0 => kb.context = <<>>
           /\ n > 0 => Len(kb.context) = 2 * n - 1
           /\ \A i \in 1..n :
                 kb.context[2 * i - 1] =
                     <<"Source", i, chunks[i].metadata.source_document,
                       chunks[i].metadata.doc_type, chunks[i].text>>
           /\ \A i \in 1..(n - 1) : kb.context[2 * i] = <<"\n---\n">>

\* Three chunks of two documents were retrieved and compiled.
C26_Witness ==
    /\ kb.op = "generate"
    /\ Len(kb.retrieved) = 3
    /\ Len(kb.context) = 5
    /\ kb.context[1][3] # kb.context[5][3]
    /\ kb.context[5][2] = 3

(***************************************************************************)
(* The summary of an ingestion                                             *)
(***************************************************************************)
RECURSIVE SumCounts(_)
SumCounts(doc_types) ==
    IF doc_types = <<>> THEN 0
    ELSE Head(doc_types)[2] + SumCounts(Tail(doc_types))

\* the entries of files_processed of the files that did not fail
Succeeded(fp) == SelectSeq(fp, LAMBDA r : r.keys # {"filename", "error"})

\* C27: the summary ingest_documents returns is consistent: total_files is
\* the number of files that did not fail, total_chunks is the sum of their
\* 'chunks' values and is the number of entries the call added to the
\* store, the doc_types counts sum to total_files, and a failed file adds
\* nothing to any of them.
C27_SummaryConsistent ==
    (kb.pc # "unused" /\ kb.op \in {"build", "ingest"}) =>
        LET stats == kb.stats
            added == Len(kb.entries)
                        - (IF kb.op = "build" THEN 0 ELSE Len(kb.before))
        IN /\ stats.total_files = Len(Succeeded(stats.files_processed))
           /\ stats.total_chunks = SumChunks(Succeeded(stats.files_processed))
           /\ stats.total_chunks = added
           /\ SumCounts(stats.doc_types) = stats.total_files

(***************************************************************************)
(* A build and the store it leaves                                         *)
(***************************************************************************)
\* C28: a build of the application resets the store first: when it is done
\* the store holds exactly the chunks this build stored, numbered from 1 by
\* the build's own counter, and none of an earlier build; no chunk_id of the
\* build meets an id the store held, so no file fails for a duplicate id
\* and none is skipped.
C28_BuildStartsFromEmpty ==
    (kb.pc # "unused" /\ kb.op = "build") =>
        LET fp == kb.stats.files_processed
        IN /\ kb.present
           /\ Len(kb.entries) = kb.stats.total_chunks
           /\ \A k \in DOMAIN kb.entries :
                 /\ kb.entries[k].id =
                       stem(kb.entries[k].metadata.source_document)
                           \o <<"_">> \o Digits(k)
                 /\ \E i \in DOMAIN Succeeded(fp) :
                       Succeeded(fp)[i].filename =
                           kb.entries[k].metadata.source_document
           /\ \A i, j \in DOMAIN kb.entries :
                 i # j => kb.entries[i].id # kb.entries[j].id
           /\ \A i \in DOMAIN fp : fp[i].error # "DuplicateIDError"

\* A build over a store that an earlier build filled: the new build's first
\* chunk takes the id the store held for a chunk of another document.
C28_Witness ==
    /\ kb.op = "build" /\ kb.prev = "build"
    /\ kb.before # <<>> /\ kb.entries # <<>>
    /\ kb.entries[1].id = kb.before[1].id
    /\ kb.entries[1].text # kb.before[1].text
    /\ Len(kb.entries) = 2

(***************************************************************************)
(* The selection                                                           *)
(***************************************************************************)
\* C29: in every state of the session, whatever was clicked, every test
\* case of selected_test_cases is one of the test cases of test_cases.
C29_SelectionWithinList ==
    session.pc # "unused" =>
        \A i \in DOMAIN session.selected_test_cases :
            session.selected_test_cases[i] \in Range(session.test_cases)

(***************************************************************************)
(* The scripts of a run                                                    *)
(***************************************************************************)
\* C30: when a script-generation run has completed, the scripts saved in the
\* session are as many as the selected test cases: one for each of them,
\* the error-comment script for a test case whose synthesis raised.
C30_OneScriptPerSelected ==
    scr.pc = "done" =>
        Len(scr.session_scripts) = Len(scr.selected)

====
